---------------------------- MODULE Spec2Model ----------------------------
(***************************************************************************)
(* A model of the PIMAP system: the datum codec (pimaputilities.py), the   *)
(* UDP and TCP sense listeners (pimapsenseudp.py, pimapsensetcp.py), the   *)
(* objective-mobility analyzer (pimapanalyzeobjectivemobility.py) and the  *)
(* Kafka store adapter (pimapstorekafka.py).                               *)
(*                                                                         *)
(* A Python string is a sequence of one-character strings, so that         *)
(* substring tests, regular-expression searches, splitting and string      *)
(* comparison are computed character by character as the code does.        *)
(***************************************************************************)
EXTENDS Integers, Sequences, FiniteSets, TLC

VARIABLES
  \* ---- codec harness (pimaputilities.py) ----
  cpc,        \* position of the codec caller
  cargs,      \* arguments of the pending create_pimap_sample call
  csrc,       \* the datum handed to create_pimap_metric
  cmargs,     \* metric_type and metric of the pending create_pimap_metric call
  cres,       \* what the last create_* call returned (or that it raised)
  cdec,       \* what the getters and validate_datum returned for cres
  cdepth,     \* how many metrics were derived in a row
  \* ---- sense listener (pimapsenseudp.py, pimapsensetcp.py) ----
  transport,  \* "udp" | "tcp" | "none": which listener was constructed
  host,       \* self.host
  now,        \* time.time(), in whole seconds
  running,    \* self.running.value
  sockbuf,    \* UDP: datagrams waiting in the bound socket
  conns,      \* TCP: the client connections
  wpc,        \* network worker (_sense_worker) positions
  wloc,       \* network worker locals
  ppc,        \* TCP classification worker positions
  ploc,       \* TCP classification worker locals
  raq,        \* received_address_queue: [pipe, fbuf]
  pdq,        \* pimap_data_queue: [pipe, fbuf]
  mpc,        \* position of the thread that owns the listener
  mloc,       \* sense(): the list being drained
  system_samples,          \* self.system_samples
  sensed_data,             \* self.sensed_data
  system_samples_updated,  \* self.system_samples_updated
  latencies,               \* self.latencies (TCP), in hundredths of a second
  results,    \* history: what each sense() call returned or that it raised
  sentLog,    \* history: every input unit the clients sent
  recvLog,    \* history: every validating datum a worker took from the network
  \* ---- objective mobility (pimapanalyzeobjectivemobility.py) ----
  analyzer,   \* "on" once PimapAnalyzeObjectiveMobility is constructed
  a_now,      \* time.time() as the analyzer reads it, in hundredths of a second
  a_system_samples,          \* self.system_samples
  a_system_samples_updated,  \* self.system_samples_updated
  samples_in,                \* self.samples_in
  metrics_out,               \* self.metrics_out
  aggregation_buffer,        \* self.aggregation_buffer
  aggregation_limit,         \* self.aggregation_limit, in LimitUnit-ths of a sample
  last_time_analyzed,        \* self.last_time_analyzed
  saved_angle_pmetrics_by_id,     \* the dict, as a sequence in insertion order
  saved_gradient_pmetrics_by_id,  \* the dict, as a sequence in insertion order
  a_arg,      \* the argument of the last analyze() call
  a_ret,      \* what the last analyze() call did and returned
  a_passed,   \* history: every list entry a call of analyze() was given
  a_calls,    \* how many analyze() calls were made
  a_steady,   \* how many of them belong to the steady stream
  \* ---- store (pimapstorekafka.py) ----
  kafka,      \* "on" once PimapStoreKafka is constructed
  k_now,      \* time.time() as the store reads it, in hundredths of a second
  k_system_samples,                  \* self.system_samples
  stored_system_samples_updated,     \* self.stored_system_samples_updated
  retrieved_system_samples_updated,  \* self.retrieved_system_samples_updated
  consumer_dict,   \* topic -> consumer, as [topic, offset] in insertion order
  num_messages,    \* self.num_messages
  retrieved_data,  \* self.retrieved_data
  stored_data,     \* self.stored_data
  stored_topics,   \* self.stored_topics, in insertion order
  producer,   \* the messages produce() queued that are not yet at the broker
  broker,     \* the topics of the broker: [topic, log], a log being runs of
              \* equal messages [key, value, count]
  k_arg,      \* the arguments of the last store() or retrieve() call
  k_ret,      \* what the last store() or retrieve() call did and returned
  k_sent,     \* history: every message handed to produce()
  k_calls,    \* how many store() and retrieve() calls were made
  k_chain,    \* how many of them belong to a run of equal calls, and its kind
  \* ---- the construction of a listener (pimapsenseudp.py, pimapsensetcp.py) ----
  c_pc,       \* position of __init__
  c_args,     \* the class, the port argument, and whether the host resolves
              \* and the address is free
  c_port,     \* self.port
  c_socket,   \* self.socket: "none", "open", "bound" or "closed"
  c_workers,  \* the worker processes started, with whether each is alive
  c_exc       \* the exception __init__ raised

codecVars == <<cpc, cargs, csrc, cmargs, cres, cdec, cdepth>>
senseVars == <<transport, host, now, running, sockbuf, conns, wpc, wloc, ppc, ploc,
               raq, pdq, mpc, mloc, system_samples, sensed_data,
               system_samples_updated, latencies, results, sentLog, recvLog>>
analyzeVars == <<analyzer, a_now, a_system_samples, a_system_samples_updated,
                 samples_in, metrics_out, aggregation_buffer, aggregation_limit,
                 last_time_analyzed, saved_angle_pmetrics_by_id,
                 saved_gradient_pmetrics_by_id, a_arg, a_ret, a_passed, a_calls,
                 a_steady>>
storeVars == <<kafka, k_now, k_system_samples, stored_system_samples_updated,
               retrieved_system_samples_updated, consumer_dict, num_messages,
               retrieved_data, stored_data, stored_topics, producer, broker,
               k_arg, k_ret, k_sent, k_calls, k_chain>>
constructVars == <<c_pc, c_args, c_port, c_socket, c_workers, c_exc>>
restVars == <<analyzeVars, storeVars, constructVars>>
vars == <<codecVars, senseVars, restVars>>

-----------------------------------------------------------------------------
(* Python strings                                                          *)

\* The characters of the model in code-point order (str comparison).
AsciiOrder ==
  <<"-", ".", "0", "1", "2", "3", "4", "5", "6", "7", "8", "9", ":", ";",
    "N", "_", "a", "b", "c", "d", "e", "f", "g", "h", "i", "j", "k", "l",
    "m", "n", "o", "p", "q", "r", "s", "t", "u", "v", "w", "x", "y", "z">>

Ord(c) == CHOOSE i \in 1..Len(AsciiOrder) : AsciiOrder[i] = c

DigitChars == <<"0", "1", "2", "3", "4", "5", "6", "7", "8", "9">>

IsDigit(c) == \E i \in 1..10 : DigitChars[i] = c

DigitVal(c) == (CHOOSE i \in 1..10 : DigitChars[i] = c) - 1

\* a < b for Python strings.
RECURSIVE StrLess(_, _)
StrLess(a, b) ==
  IF b = <<>> THEN FALSE
  ELSE IF a = <<>> THEN TRUE
  ELSE IF Head(a) = Head(b) THEN StrLess(Tail(a), Tail(b))
  ELSE Ord(Head(a)) < Ord(Head(b))

\* k is found in s at index i.
IsAt(s, i, k) ==
  /\ i + Len(k) - 1 <= Len(s)
  /\ \A j \in 1..Len(k) : s[i + j - 1] = k[j]

\* Python's  k in s.
Contains(s, k) == \E i \in 1..(Len(s) + 1) : IsAt(s, i, k)

\* str(n) of a non-negative int.
RECURSIVE IntStr(_)
IntStr(n) ==
  IF n < 10 THEN <<DigitChars[n + 1]>>
  ELSE Append(IntStr(n \div 10), DigitChars[(n % 10) + 1])

RECURSIVE Pow10(_)
Pow10(k) == IF k = 0 THEN 1 ELSE 10 * Pow10(k - 1)

\* The d digits of m, zero-padded on the left.
RECURSIVE PadDigits(_, _)
PadDigits(m, d) ==
  IF d = 0 THEN <<>>
  ELSE Append(PadDigits(m \div 10, d - 1), DigitChars[(m % 10) + 1])

\* The fraction digits of a float's str(): no trailing zero, but one digit.
RECURSIVE StripZeros(_)
StripZeros(s) ==
  IF s = <<>> THEN <<"0">>
  ELSE IF Len(s) > 1 /\ s[Len(s)] = "0" THEN StripZeros(SubSeq(s, 1, Len(s) - 1))
  ELSE s

Abs(n) == IF n < 0 THEN -n ELSE n

\* str(x) of the float x = n / 10^d.
FloatStr(n, d) ==
  (IF n < 0 THEN <<"-">> ELSE <<>>) \o IntStr(Abs(n) \div Pow10(d)) \o <<".">> \o
  StripZeros(PadDigits(Abs(n) % Pow10(d), d))

\* Python values that reach the codec: a str, an int, a float holding a
\* whole number or a number of hundredths, or None.
PyS(s) == [t |-> "str", s |-> s, n |-> 0]
PyI(n) == [t |-> "int", s |-> <<>>, n |-> n]
PyF(n) == [t |-> "float", s |-> <<>>, n |-> n]
PyF100(n) == [t |-> "float100", s |-> <<>>, n |-> n]
PyNone == [t |-> "none", s |-> <<>>, n |-> 0]

\* str(v)
PyStr(v) ==
  CASE v.t = "str" -> v.s
    [] v.t = "int" -> IntStr(v.n)
    [] v.t = "float" -> IntStr(v.n) \o <<".", "0">>
    [] v.t = "float100" -> FloatStr(v.n, 2)
    [] OTHER -> <<"N", "o", "n", "e">>

\* float(s) succeeds. The grammar is digits with an optional fraction; the
\* strings of the model hold no sign, exponent, blank, "inf" or "nan".
IsFloatStr(s) ==
  /\ s # <<>>
  /\ \A i \in 1..Len(s) : IsDigit(s[i]) \/ s[i] = "."
  /\ Cardinality({i \in 1..Len(s) : s[i] = "."}) <= 1
  /\ \E i \in 1..Len(s) : IsDigit(s[i])

RECURSIVE DigitsVal(_)
DigitsVal(s) ==
  IF s = <<>> THEN 0
  ELSE 10 * DigitsVal(SubSeq(s, 1, Len(s) - 1)) + DigitVal(s[Len(s)])

\* float(s) in hundredths, for a string IsFloatStr accepts with at most two
\* fraction digits.
FloatVal(s) ==
  LET dots == {i \in 1..Len(s) : s[i] = "."}
      d == IF dots = {} THEN Len(s) + 1 ELSE CHOOSE i \in dots : TRUE
      ip == SubSeq(s, 1, d - 1)
      fr == SubSeq(s, d + 1, Len(s))
      fr2 == SubSeq(fr \o <<"0", "0">>, 1, 2)
  IN 100 * DigitsVal(ip) + DigitsVal(fr2)

-----------------------------------------------------------------------------
(* pimaputilities.py                                                       *)

Ok(v) == [ok |-> TRUE, v |-> v]
ValueError == [ok |-> FALSE, v |-> <<>>]

K_sample == <<"s", "a", "m", "p", "l", "e">>
K_metric == <<"m", "e", "t", "r", "i", "c">>
K_type == <<"t", "y", "p", "e">>
K_patient == <<"p", "a", "t", "i", "e", "n", "t">>
K_device == <<"d", "e", "v", "i", "c", "e">>
K_id == <<"i", "d">>
K_timestamp == <<"t", "i", "m", "e", "s", "t", "a", "m", "p">>
K_patient_id == K_patient \o <<"_">> \o K_id
K_device_id == K_device \o <<"_">> \o K_id
Terminator == <<";", ";">>

\* A regular expression without repetition: one set of characters per
\* position.
Lit(k) == [j \in 1..Len(k) |-> {k[j]}]
Re_sample_type == Lit(K_sample) \o <<{"-", "_"}>> \o Lit(K_type) \o <<{":"}>>
Re_metric_type == Lit(K_metric) \o <<{"-", "_"}>> \o Lit(K_type) \o <<{":"}>>
Re_patient_id == Lit(K_patient) \o <<{"-", "_"}>> \o Lit(K_id) \o <<{":"}>>
Re_device_id == Lit(K_device) \o <<{"-", "_"}>> \o Lit(K_id) \o <<{":"}>>
Re_sample == Lit(K_sample) \o <<{":"}>>
Re_metric == Lit(K_metric) \o <<{":"}>>
Re_timestamp == Lit(K_timestamp) \o <<{":"}>>

ReAt(s, i, re) ==
  /\ i + Len(re) - 1 <= Len(s)
  /\ \A j \in 1..Len(re) : s[i + j - 1] \in re[j]

\* re.search(re, s) finds a match.
ReFound(re, s) == \E i \in 1..Len(s) : s[i] \in re[1] /\ ReAt(s, i, re)

\* The index of the first ";" of s at or after j (0: none).
NextSemi(s, j) ==
  LET semis == {e \in j..Len(s) : s[e] = ";"}
  IN IF semis = {} THEN 0
     ELSE CHOOSE e \in semis : \A f \in semis : e <= f

\* re + "([^;]+);" matches s at i: the key, then at least one character
\* other than ";", then a ";".
FieldAt(s, i, re) ==
  /\ ReAt(s, i, re)
  /\ NextSemi(s, i + Len(re)) > i + Len(re)

\* re.search(re + "([^;]+);", s): group(1) of the leftmost match, or the
\* ValueError the getters raise when there is none.
ReGroup(re, s) ==
  LET at == {i \in 1..Len(s) : s[i] \in re[1] /\ FieldAt(s, i, re)}
  IN IF at = {} THEN ValueError
     ELSE LET i == CHOOSE a \in at : \A b \in at : a <= b
              j == i + Len(re)
          IN Ok(SubSeq(s, j, NextSemi(s, j) - 1))

get_sample_type(d) == ReGroup(Re_sample_type, d)

get_metric_type(d) == ReGroup(Re_metric_type, d)

get_type(d) ==
  IF ReFound(Re_sample_type, d) THEN get_sample_type(d)
  ELSE IF ReFound(Re_metric_type, d) THEN get_metric_type(d)
  ELSE ValueError

get_patient_id(d) == ReGroup(Re_patient_id, d)

get_device_id(d) == ReGroup(Re_device_id, d)

get_sample(d) == ReGroup(Re_sample, d)

get_metric(d) == ReGroup(Re_metric, d)

get_data(d) ==
  IF ReFound(Re_sample, d) THEN get_sample(d)
  ELSE IF ReFound(Re_metric, d) THEN get_metric(d)
  ELSE ValueError

get_timestamp(d) == ReGroup(Re_timestamp, d)

validate_datum(d) ==
  /\ get_type(d).ok
  /\ get_patient_id(d).ok
  /\ get_device_id(d).ok
  /\ get_data(d).ok
  /\ get_timestamp(d).ok

\* special_keys without the ";" entry.
SampleSpecialKeys_NoSemicolon == {K_patient_id, K_device_id, K_sample, K_timestamp}

\* The keywords a sample must not contain, and those a metric must not.
SampleSpecialKeys == {K_patient_id, K_device_id, K_sample, K_timestamp, <<";">>}
MetricSpecialKeys == {K_patient_id, K_device_id, K_metric, K_timestamp, <<";">>}

HasDelimiter(s) == Contains(s, <<":">>) \/ Contains(s, <<";">>)

\* The string create_pimap_sample concatenates on its last two lines.
SampleWire(stype, pid, did, s, tstamp) ==
  K_sample \o <<"_">> \o K_type \o <<":">> \o stype \o
  <<";">> \o K_patient_id \o <<":">> \o pid \o
  <<";">> \o K_device_id \o <<":">> \o did \o
  <<";">> \o K_sample \o <<":">> \o s \o
  <<";">> \o K_timestamp \o <<":">> \o tstamp \o Terminator

\* The string create_pimap_metric concatenates on its last two lines.
MetricWire(mtype, pid, did, m, tstamp) ==
  K_metric \o <<"_">> \o K_type \o <<":">> \o mtype \o
  <<";">> \o K_patient_id \o <<":">> \o pid \o
  <<";">> \o K_device_id \o <<":">> \o did \o
  <<";">> \o K_metric \o <<":">> \o m \o
  <<";">> \o K_timestamp \o <<":">> \o tstamp \o Terminator

\* create_pimap_sample(sample_type, patient_id, device_id, sample, timestamp)
\* called when time.time() returns the float clock; the arguments are Python
\* values.
create_pimap_sample_at(sample_type, patient_id, device_id, sample, timestamp, clock) ==
  LET stype == PyStr(sample_type)
      pid == PyStr(patient_id)
      did == PyStr(device_id)
      s == PyStr(sample)
      tstamp == IF timestamp # PyNone THEN PyStr(timestamp) ELSE PyStr(clock)
  IN IF HasDelimiter(stype) THEN ValueError
     ELSE IF HasDelimiter(pid) THEN ValueError
     ELSE IF HasDelimiter(did) THEN ValueError
     ELSE IF \E key \in SampleSpecialKeys : Contains(s, key) THEN ValueError
     ELSE IF ~IsFloatStr(tstamp) THEN ValueError
     ELSE Ok(SampleWire(stype, pid, did, s, tstamp))

\* The same call when time.time() is the whole second t.
create_pimap_sample(sample_type, patient_id, device_id, sample, timestamp, t) ==
  create_pimap_sample_at(sample_type, patient_id, device_id, sample, timestamp, PyF(t))

\* create_pimap_metric stamping the metric itself instead of copying the
\* timestamp of pimap_datum.
create_pimap_metric_OwnTimestamp(metric_type, pimap_datum, metric) ==
  LET mtype == PyStr(metric_type)
      pid == get_patient_id(pimap_datum)
      did == get_device_id(pimap_datum)
      m == PyStr(metric)
      tstamp == get_timestamp(pimap_datum)
  IN IF HasDelimiter(mtype) THEN ValueError
     ELSE IF ~pid.ok THEN ValueError
     ELSE IF ~did.ok THEN ValueError
     ELSE IF \E key \in MetricSpecialKeys : Contains(m, key) THEN ValueError
     ELSE IF ~tstamp.ok THEN ValueError
     ELSE IF ~IsFloatStr(tstamp.v) THEN ValueError
     ELSE Ok(MetricWire(mtype, pid.v, did.v, m, <<"0", ".", "0">>))

\* create_pimap_metric(metric_type, pimap_datum, metric); pimap_datum is a
\* string.
create_pimap_metric(metric_type, pimap_datum, metric) ==
  LET mtype == PyStr(metric_type)
      pid == get_patient_id(pimap_datum)
      did == get_device_id(pimap_datum)
      m == PyStr(metric)
      tstamp == get_timestamp(pimap_datum)
  IN IF HasDelimiter(mtype) THEN ValueError
     ELSE IF ~pid.ok THEN ValueError
     ELSE IF ~did.ok THEN ValueError
     ELSE IF \E key \in MetricSpecialKeys : Contains(m, key) THEN ValueError
     ELSE IF ~tstamp.ok THEN ValueError
     ELSE IF ~IsFloatStr(tstamp.v) THEN ValueError
     ELSE Ok(MetricWire(mtype, pid.v, did.v, m, tstamp.v))


\* Python's s.split(sep) for a non-empty separator.
RECURSIVE PySplit(_, _)
PySplit(s, sep) ==
  LET at == {i \in 1..Len(s) : IsAt(s, i, sep)}
  IN IF at = {} THEN <<s>>
     ELSE LET i == CHOOSE a \in at : \A b \in at : a <= b
          IN <<SubSeq(s, 1, i - 1)>> \o
             PySplit(SubSeq(s, i + Len(sep), Len(s)), sep)

-----------------------------------------------------------------------------
(* The codec under every argument tuple of a bounded set                   *)

\* How many metrics are derived in a row from one datum.
MaxDerive == 1

\* The wall clock, in seconds, when the listener or the codec caller starts.
\* Every clock value of a run has the same number of digits, as the values
\* of time.time() have.
ClockStart == 11

TypeArgs == {PyS(<<"t">>), PyS(<<>>), PyS(<<"a", ":">>), PyI(1)}
PatientArgs == {PyS(<<"p">>), PyS(<<>>), PyS(<<"p", ";">>), PyI(2)}
DeviceArgs == {PyS(<<"d">>), PyS(<<"d", ":">>), PyI(3)}
SampleArgs ==
  {PyS(<<"x">>), PyS(<<>>), PyS(K_metric \o <<":", "y">>), PyS(K_sample),
   PyS(<<"a", ";", "b">>), PyS(K_timestamp)}
TimestampArgs ==
  {PyNone, PyS(<<"1", ".", "5">>), PyS(<<"a", "b", "c">>), PyF(7), PyS(<<>>)}

MetricTypeArgs == {PyS(<<"m">>), PyS(<<"m", ";">>)}
MetricArgs ==
  {PyS(<<"x">>), PyS(<<>>), PyS(K_metric),
   PyS(K_sample \o <<"_">> \o K_type \o <<":", "z">>),
   PyS(K_sample \o <<":">>), PyI(5)}

\* Datums written by hand (not by create_pimap_sample), as a network peer
\* may send them.
Wire_colon_id ==
  <<"s", "a", "m", "p", "l", "e", "_", "t", "y", "p", "e", ":", "t", ";",
  "p", "a", "t", "i", "e", "n", "t", "_", "i", "d", ":", "a", ":", "b", ";",
  "d", "e", "v", "i", "c", "e", "_", "i", "d", ":", "d", ";", "s", "a", "m",
  "p", "l", "e", ":", "s", ";", "t", "i", "m", "e", "s", "t", "a", "m", "p",
  ":", "1", ";", ";">>
Wire_hyphen ==
  <<"s", "a", "m", "p", "l", "e", "-", "t", "y", "p", "e", ":", "t", ";",
  "p", "a", "t", "i", "e", "n", "t", "-", "i", "d", ":", "p", ";", "d", "e",
  "v", "i", "c", "e", "-", "i", "d", ":", "d", ";", "s", "a", "m", "p", "l",
  "e", ":", "s", ";", "t", "i", "m", "e", "s", "t", "a", "m", "p", ":", "2",
  ";", ";">>
Wire_bad_ts ==
  <<"s", "a", "m", "p", "l", "e", "_", "t", "y", "p", "e", ":", "t", ";",
  "p", "a", "t", "i", "e", "n", "t", "_", "i", "d", ":", "p", ";", "d", "e",
  "v", "i", "c", "e", "_", "i", "d", ":", "d", ";", "s", "a", "m", "p", "l",
  "e", ":", "s", ";", "t", "i", "m", "e", "s", "t", "a", "m", "p", ":", "a",
  "b", "c", ";", ";">>
Wire_garbage == <<"g", "a", "r", "b", "a", "g", "e">>
WireInputs == {Wire_colon_id, Wire_hyphen, Wire_bad_ts, Wire_garbage}

NoArgs == [type |-> PyNone, pid |-> PyNone, did |-> PyNone, sample |-> PyNone,
           ts |-> PyNone]
NoMArgs == [type |-> PyNone, metric |-> PyNone]
NoDec == [type |-> ValueError, pid |-> ValueError, did |-> ValueError,
          data |-> ValueError, ts |-> ValueError, valid |-> FALSE]
Res(kind, r) == [kind |-> kind, ok |-> r.ok, v |-> r.v]

CodecIdle ==
  /\ cpc = "off" /\ cargs = NoArgs /\ csrc = <<>> /\ cmargs = NoMArgs
  /\ cres = Res("none", ValueError) /\ cdec = NoDec /\ cdepth = 0

SenseIdle ==
  /\ transport = "none" /\ host = <<>> /\ now = ClockStart /\ running = FALSE
  /\ sockbuf = <<>> /\ conns = <<>> /\ wpc = <<>> /\ wloc = <<>>
  /\ ppc = <<>> /\ ploc = <<>>
  /\ raq = [pipe |-> <<>>, fbuf |-> <<>>]
  /\ pdq = [pipe |-> <<>>, fbuf |-> <<>>]
  /\ mpc = "off" /\ mloc = <<>> /\ results = <<>>
  /\ system_samples = FALSE /\ sensed_data = 0
  /\ system_samples_updated = ClockStart /\ latencies = <<>>
  /\ sentLog = <<>> /\ recvLog = <<>>

\* What a call that has not happened did and returned.
NoCall == [exc |-> "none", at |-> "none", flushed |-> FALSE, over |-> FALSE,
           metrics |-> <<>>, system |-> <<>>]

AnalyzeIdle ==
  /\ analyzer = "off" /\ a_now = 0
  /\ a_system_samples = FALSE /\ a_system_samples_updated = 0
  /\ samples_in = 0 /\ metrics_out = 0
  /\ aggregation_buffer = <<>> /\ aggregation_limit = 0
  /\ last_time_analyzed = 0
  /\ saved_angle_pmetrics_by_id = <<>>
  /\ saved_gradient_pmetrics_by_id = <<>>
  /\ a_arg = PyNone /\ a_ret = NoCall /\ a_passed = {}
  /\ a_calls = 0 /\ a_steady = 0

\* What a store() or retrieve() call that has not happened did and returned.
NoStoreCall == [op |-> "none", exc |-> "none", produced |-> 0, polled |-> 0,
                before |-> 0, data |-> <<>>, system |-> <<>>, tries |-> <<>>]

StoreIdle ==
  /\ kafka = "off" /\ k_now = 0 /\ k_system_samples = FALSE
  /\ stored_system_samples_updated = 0
  /\ retrieved_system_samples_updated = 0
  /\ consumer_dict = <<>> /\ num_messages = 0
  /\ retrieved_data = 0 /\ stored_data = 0 /\ stored_topics = <<>>
  /\ producer = <<>> /\ broker = <<>>
  /\ k_arg = PyNone /\ k_ret = NoStoreCall /\ k_sent = <<>>
  /\ k_calls = 0 /\ k_chain = [n |-> 0, kind |-> "none"]

\* The arguments of a constructor that is not called.
NoConstruct == [class |-> "none", port |-> PyNone, resolves |-> FALSE,
                free |-> FALSE]

ConstructIdle ==
  /\ c_pc = "off" /\ c_args = NoConstruct /\ c_port = 0
  /\ c_socket = "none" /\ c_workers = <<>> /\ c_exc = "none"

RestIdle == AnalyzeIdle /\ StoreIdle /\ ConstructIdle

\* Either a create_pimap_sample call is pending, or a hand-written datum has
\* arrived.
CodecInit ==
  /\ SenseIdle
  /\ RestIdle
  /\ csrc \in {<<>>} \cup WireInputs
  /\ IF csrc = <<>>
       THEN /\ cpc = "args"
            /\ cargs \in [type : TypeArgs, pid : PatientArgs, did : DeviceArgs,
                          sample : SampleArgs, ts : TimestampArgs]
            /\ cres = Res("none", ValueError)
       ELSE /\ cpc = "created"
            /\ cargs = NoArgs
            /\ cres = Res("wire", Ok(csrc))
  /\ cmargs = NoMArgs
  /\ cdec = NoDec
  /\ cdepth = 0

CreateSample ==
  /\ cpc = "args"
  /\ cres' = Res("sample", create_pimap_sample(cargs.type, cargs.pid, cargs.did,
                                               cargs.sample, cargs.ts, now))
  /\ cpc' = "created"
  /\ UNCHANGED <<cargs, csrc, cmargs, cdec, cdepth>>
  /\ UNCHANGED <<senseVars, restVars>>

\* The five getters and validate_datum applied to the datum in hand.
Decode ==
  /\ cpc = "created"
  /\ cres.ok
  /\ cdec' = [type |-> get_type(cres.v), pid |-> get_patient_id(cres.v),
              did |-> get_device_id(cres.v), data |-> get_data(cres.v),
              ts |-> get_timestamp(cres.v), valid |-> validate_datum(cres.v)]
  /\ cpc' = "decoded"
  /\ UNCHANGED <<cargs, csrc, cmargs, cres, cdepth>>
  /\ UNCHANGED <<senseVars, restVars>>

CreateMetric ==
  /\ cpc = "decoded"
  /\ cdepth < MaxDerive
  /\ \E mt \in MetricTypeArgs, m \in MetricArgs :
       /\ cmargs' = [type |-> mt, metric |-> m]
       /\ cres' = Res("metric", create_pimap_metric(mt, cres.v, m))
  /\ csrc' = cres.v
  /\ cdepth' = cdepth + 1
  /\ cpc' = "created"
  /\ UNCHANGED <<cargs, cdec>>
  /\ UNCHANGED <<senseVars, restVars>>

CodecNext == CreateSample \/ Decode \/ CreateMetric

SpecCodec == CodecInit /\ [][CodecNext]_vars

-----------------------------------------------------------------------------
(* Numbers and literals of the telemetry and of the analyzer                *)
(*                                                                         *)
(* The components compute in floating point; the model computes the same    *)
(* expressions exactly, on integers scaled by a power of ten or by the     *)
(* denominators of the centroid geometry, and leaves IEEE rounding out.    *)
(* A quotient that has no finite decimal expansion is cut after two        *)
(* fraction digits.                                                        *)

\* float(s) in hundredths for a str() of the model, with its sign.
SignedFloatVal(s) ==
  IF s # <<>> /\ s[1] = "-" THEN -FloatVal(SubSeq(s, 2, Len(s)))
  ELSE FloatVal(s)

\* The index of the first occurrence of k in s (0: none).
Find(s, k) ==
  LET at == {i \in 1..Len(s) : IsAt(s, i, k)}
  IN IF at = {} THEN 0 ELSE CHOOSE i \in at : \A j \in at : i <= j

\* The text of s from index from up to the next "," or "}".
ValueText(s, from) ==
  Ok(SubSeq(s, from, (CHOOSE e \in from..Len(s) :
                        /\ s[e] \in {",", "}"}
                        /\ \A f \in from..(e - 1) : s[f] \notin {",", "}"}) - 1))

\* The value that follows the key text k, found at index i of s (0: absent).
ValueAfter(s, k, i) ==
  IF i = 0 \/ \A e \in (i + Len(k))..Len(s) : s[e] \notin {",", "}"} THEN ValueError
  ELSE ValueText(s, i + Len(k))

DictKey(key) == <<"'">> \o key \o <<"'", ":", " ">>

\* ast.literal_eval(s)[key] for the str() of a dict whose values are
\* numbers: the text between "'key': " and the next "," or "}".
DictGet(s, key) == ValueAfter(s, DictKey(key), Find(s, DictKey(key)))

\* str({key: value}) and str() of a dict of several entries.
DictEntry(key, value) == DictKey(key) \o value
RECURSIVE JoinEntries(_)
JoinEntries(es) ==
  IF Len(es) = 1 THEN es[1] ELSE es[1] \o <<",", " ">> \o JoinEntries(Tail(es))
DictStr(es) == <<"{">> \o JoinEntries(es) \o <<"}">>
Quoted(s) == <<"'">> \o s \o <<"'">>

\* n / seconds as a float's str(), the time being in hundredths.
PerSecond(n, elapsed) ==
  FloatStr(10000 * (n \div elapsed) + (10000 * (n % elapsed)) \div elapsed, 2)

K_system_samples ==
  <<"s", "y", "s", "t", "e", "m", "_", "s", "a", "m", "p", "l", "e", "s">>
K_throughput == <<"t", "h", "r", "o", "u", "g", "h", "p", "u", "t">>
K_sense == <<"s", "e", "n", "s", "e">>
K_latency == <<"l", "a", "t", "e", "n", "c", "y">>

-----------------------------------------------------------------------------
(* Sense listeners: what the two transports share                          *)

\* Network workers of a listener (workers / sense_workers).
SenseWorkers == 2

\* Input units the clients send in one run.
MaxSend == 2

\* sense() calls in one run.
MaxSense == 2

\* Items the pipe under a multiprocessing.Queue holds before a feeder thread
\* blocks.
PipeCap == 1

\* Seconds the clock advances in one run.
MaxTick == 2

Workers == 1..SenseWorkers

\* self.system_samples_period, in seconds.
system_samples_period == 1

\* The sample_type given to data that does not validate.
UdpSampleType == <<"u", "d", "p">>
TcpSampleType == <<"t", "c", "p">>

\* The address recvfrom() and accept() report for the client.
ClientIp == <<"1", ".", "2", ".", "3", ".", "4">>
ClientAddr(port) == [ip |-> PyS(ClientIp), port |-> PyI(port)]

\* The port the client sends from.
ClientPort == 7

\* Input units: two datums that validate, with timestamps 9 and 10, one
\* that validates with a timestamp that is no float, and two that do not
\* validate (with and without a ";").
In_v9 ==
  <<"s", "a", "m", "p", "l", "e", "_", "t", "y", "p", "e", ":", "t", ";",
  "p", "a", "t", "i", "e", "n", "t", "_", "i", "d", ":", "p", ";", "d", "e",
  "v", "i", "c", "e", "_", "i", "d", ":", "d", ";", "s", "a", "m", "p", "l",
  "e", ":", "x", ";", "t", "i", "m", "e", "s", "t", "a", "m", "p", ":", "9",
  ";", ";">>
In_v10 ==
  <<"s", "a", "m", "p", "l", "e", "_", "t", "y", "p", "e", ":", "t", ";",
  "p", "a", "t", "i", "e", "n", "t", "_", "i", "d", ":", "p", ";", "d", "e",
  "v", "i", "c", "e", "_", "i", "d", ":", "d", ";", "s", "a", "m", "p", "l",
  "e", ":", "x", ";", "t", "i", "m", "e", "s", "t", "a", "m", "p", ":", "1",
  "0", ";", ";">>
In_vabc == Wire_bad_ts
In_text == <<"h", "i">>
In_semi == <<"a", ";", "b">>

\* multiprocessing.Queue: put() appends to the putting process's buffer, and
\* that process's feeder thread writes the buffer to the shared pipe.
EmptyQueue(n) == [pipe |-> <<>>, fbuf |-> [i \in 1..n |-> <<>>]]

Put(q, i, x) == [q EXCEPT !.fbuf[i] = Append(@, x)]

RECURSIVE PutAll(_, _, _)
PutAll(q, i, xs) ==
  IF xs = <<>> THEN q ELSE PutAll(Put(q, i, Head(xs)), i, Tail(xs))

CanFeed(q, i) == q.fbuf[i] # <<>> /\ Len(q.pipe) < PipeCap

Feed(q, i) ==
  [pipe |-> Append(q.pipe, Head(q.fbuf[i])),
   fbuf |-> [q.fbuf EXCEPT ![i] = Tail(@)]]

\* The key sense() sorts by: the timestamp string (UDP), its float (TCP).
\* A key that cannot be computed makes sort() raise ValueError.
SortKeyOk(tr, x) ==
  /\ get_timestamp(x).ok
  /\ tr = "tcp" => IsFloatStr(get_timestamp(x).v)

KeyLess(tr, x, y) ==
  IF tr = "udp" THEN StrLess(get_timestamp(x).v, get_timestamp(y).v)
  ELSE FloatVal(get_timestamp(x).v) < FloatVal(get_timestamp(y).v)

\* x put after the last element that does not sort after it (a stable sort).
RECURSIVE InsertSorted(_, _, _)
InsertSorted(tr, sorted, x) ==
  IF sorted = <<>> THEN <<x>>
  ELSE IF KeyLess(tr, x, sorted[Len(sorted)])
    THEN Append(InsertSorted(tr, SubSeq(sorted, 1, Len(sorted) - 1), x),
                sorted[Len(sorted)])
    ELSE Append(sorted, x)

\* pimap_data.sort(key=...)
RECURSIVE SortByTimestamp(_, _)
SortByTimestamp(tr, data) ==
  IF data = <<>> THEN <<>>
  ELSE InsertSorted(tr, SortByTimestamp(tr, SubSeq(data, 1, Len(data) - 1)),
                    data[Len(data)])

RECURSIVE SumSeq(_)
SumSeq(s) == IF s = <<>> THEN 0 ELSE Head(s) + SumSeq(Tail(s))

\* What time.time() may return: no less than it returned last.
ClockReads == now..(ClockStart + MaxTick)

\* t - float(timestamp) for each datum, in hundredths.
Latencies(data, t) ==
  [i \in 1..Len(data) |-> 100 * t - FloatVal(get_timestamp(data[i]).v)]

\* sense() calls time.time() and uses what it returns: for the latencies
\* (TCP), and to the right of  self.system_samples and.
ReadsClock == (transport = "tcp" /\ mloc # <<>>) \/ system_samples

\* The hosts a listener is bound to: the loopback by name, and the IPv6
\* loopback address.
Host_local == <<"l", "o", "c", "a", "l", "h", "o", "s", "t">>
Host_ipv6 == <<":", ":", "1">>
Hosts == {Host_local, Host_ipv6}

\* self.port
ListenPort == 31415

\* str((self.host, self.port))
AddressStr(h, port) ==
  <<"(">> \o Quoted(h) \o <<",", " ">> \o IntStr(port) \o <<")">>

\* str() of the dict of the system sample of sense(): the throughput and,
\* when latencies were noted, their mean.
SensedDict(count, elapsed, lat) ==
  DictStr(<<DictEntry(K_throughput, PerSecond(count, 100 * elapsed))>> \o
          (IF lat = <<>> THEN <<>>
           ELSE <<DictEntry(K_latency, FloatStr(SumSeq(lat) \div Len(lat), 2))>>))

\* sense() returns pimap_data and the system samples, or raises.
SenseReturned(pimap_data, system, count, lat) ==
  /\ results' = Append(results, [ok |-> TRUE, data |-> pimap_data,
                                 system |-> system])
  /\ sensed_data' = count
  /\ latencies' = lat

SenseRaised(pimap_data, count, lat) ==
  /\ results' = Append(results, [ok |-> FALSE, data |-> pimap_data,
                                 system |-> <<>>])
  /\ sensed_data' = count
  /\ latencies' = lat
  /\ UNCHANGED system_samples_updated

\* The end of the system_samples block, created being what
\* create_pimap_sample returned.
SenseReported(pimap_data, t, lat, count, created) ==
  IF created.ok
    THEN /\ SenseReturned(pimap_data, <<created.v>>, 0, <<>>)
         /\ system_samples_updated' = t
    ELSE SenseRaised(pimap_data, count, lat)

\* sense() once the data is counted.
SenseCounted(pimap_data, t, lat, count) ==
  IF system_samples /\ t - system_samples_updated > system_samples_period
    THEN SenseReported(
           pimap_data, t, lat, count,
           create_pimap_sample_at(
             PyS(K_system_samples), PyS(K_sense),
             PyS(AddressStr(host, ListenPort)),
             PyS(SensedDict(count, t - system_samples_updated, lat)),
             PyNone, PyF(t)))
    ELSE /\ SenseReturned(pimap_data, <<>>, count, lat)
         /\ UNCHANGED system_samples_updated

\* sense() counting the data of the call alone:  self.sensed_data =
\* len(pimap_data).
SenseSorted_CountsCall(pimap_data, t) ==
  SenseCounted(pimap_data, t,
               IF transport = "tcp" THEN latencies \o Latencies(pimap_data, t)
               ELSE latencies,
               Len(pimap_data))

\* sense() once the data is sorted, time.time() returning t.
SenseSorted(pimap_data, t) ==
  SenseCounted(pimap_data, t,
               IF transport = "tcp" THEN latencies \o Latencies(pimap_data, t)
               ELSE latencies,
               sensed_data + Len(pimap_data))

\* sense() after the queue is drained into mloc: sort, count, telemetry,
\* return.
SenseReturn ==
  /\ mpc \in {"idle", "draining"}
  /\ mpc = "idle" => Len(results) < MaxSense
  /\ pdq.pipe = <<>>
  /\ IF \A i \in 1..Len(mloc) : SortKeyOk(transport, mloc[i])
       THEN \E t \in ClockReads :
              /\ ~ReadsClock => t = now
              /\ now' = t
              /\ SenseSorted(SortByTimestamp(transport, mloc), t)
       ELSE /\ results' = Append(results,
                     [ok |-> FALSE, data |-> mloc, system |-> <<>>])
            /\ UNCHANGED <<now, sensed_data, system_samples_updated,
                           latencies>>
  /\ mloc' = <<>>
  /\ mpc' = "idle"
  /\ UNCHANGED <<transport, host, running, sockbuf, conns, wpc, wloc, ppc,
                 ploc, raq, pdq, system_samples, sentLog, recvLog>>
  /\ UNCHANGED <<codecVars, restVars>>

\* sense(): one pass of  while not queue.empty(): get().
SenseGet ==
  /\ mpc \in {"idle", "draining"}
  /\ mpc = "idle" => Len(results) < MaxSense
  /\ pdq.pipe # <<>>
  /\ mloc' = Append(mloc, Head(pdq.pipe))
  /\ pdq' = [pdq EXCEPT !.pipe = Tail(@)]
  /\ mpc' = "draining"
  /\ UNCHANGED <<transport, host, now, running, sockbuf, conns, wpc, wloc, ppc,
                 ploc, raq, system_samples, sensed_data,
                 system_samples_updated, latencies, results, sentLog, recvLog>>
  /\ UNCHANGED <<codecVars, restVars>>

-----------------------------------------------------------------------------
(* pimapsenseudp.py                                                        *)

UdpInputs == {In_v9, In_v10, In_text, In_semi}

NoDatagram == [data |-> <<>>, addr |-> ClientAddr(0)]

\* The listener after __init__ returned: socket bound, workers started.
UdpInit ==
  /\ CodecIdle
  /\ RestIdle
  /\ transport = "udp"
  /\ now = ClockStart
  /\ running = TRUE
  /\ sockbuf = <<>>
  /\ conns = <<>>
  /\ wpc = [w \in Workers |-> "loop"]
  /\ wloc = [w \in Workers |-> [rx |-> NoDatagram, raised |-> FALSE]]
  /\ ppc = <<>> /\ ploc = <<>>
  /\ raq = EmptyQueue(0)
  /\ pdq = EmptyQueue(SenseWorkers)
  /\ mpc = "idle"
  /\ mloc = <<>>
  /\ system_samples \in BOOLEAN
  /\ host \in Hosts
  /\ host = Host_ipv6 => system_samples
  /\ sensed_data = 0
  /\ system_samples_updated = ClockStart
  /\ latencies = <<>>
  /\ results = <<>>
  /\ sentLog = <<>>
  /\ recvLog = <<>>

\* A client sends one datagram to the listener's address.
UdpSend ==
  /\ Len(sentLog) < MaxSend
  /\ mpc # "closed"
  /\ \E d \in UdpInputs :
       /\ sockbuf' = Append(sockbuf,
                    [data |-> d, addr |-> ClientAddr(ClientPort)])
       /\ sentLog' = Append(sentLog, d)
  /\ UNCHANGED <<transport, host, now, running, conns, wpc, wloc, ppc, ploc, raq,
                 pdq, mpc, mloc, system_samples, sensed_data,
                 system_samples_updated, latencies, results, recvLog>>
  /\ UNCHANGED <<codecVars, restVars>>

\* while self.running.value:
UdpWorkerLoop(w) ==
  /\ wpc[w] = "loop"
  /\ wpc' = [wpc EXCEPT ![w] = IF running THEN "recv" ELSE "flush"]
  /\ UNCHANGED <<transport, host, now, running, sockbuf, conns, wloc, ppc, ploc,
                 raq, pdq, mpc, mloc, system_samples, sensed_data,
                 system_samples_updated, latencies, results, sentLog, recvLog>>
  /\ UNCHANGED <<codecVars, restVars>>

\* self.socket.recvfrom(...) returns a datagram.
UdpRecv(w) ==
  /\ wpc[w] = "recv"
  /\ sockbuf # <<>>
  /\ wloc' = [wloc EXCEPT ![w].rx = Head(sockbuf)]
  /\ sockbuf' = Tail(sockbuf)
  /\ recvLog' = IF validate_datum(Head(sockbuf).data)
                  THEN Append(recvLog, Head(sockbuf).data) ELSE recvLog
  /\ wpc' = [wpc EXCEPT ![w] = "got"]
  /\ UNCHANGED <<transport, host, now, running, conns, ppc, ploc, raq, pdq, mpc,
                 mloc, system_samples, sensed_data, system_samples_updated,
                 latencies, results, sentLog>>
  /\ UNCHANGED <<codecVars, restVars>>

\* recvfrom() raises socket.timeout: continue.
UdpRecvTimeout(w) ==
  /\ wpc[w] = "recv"
  /\ sockbuf = <<>>
  /\ wpc' = [wpc EXCEPT ![w] = "loop"]
  /\ UNCHANGED <<transport, host, now, running, sockbuf, conns, wloc, ppc, ploc,
                 raq, pdq, mpc, mloc, system_samples, sensed_data,
                 system_samples_updated, latencies, results, sentLog, recvLog>>
  /\ UNCHANGED <<codecVars, restVars>>

\* What a worker makes of a received unit: the unit itself if it validates,
\* else create_pimap_sample(self.sample_type, address[0], address[1], unit).
Classify(sample_type, rx, t) ==
  IF validate_datum(rx.data) THEN Ok(rx.data)
  ELSE create_pimap_sample(PyS(sample_type), rx.addr.ip, rx.addr.port,
                           PyS(rx.data), PyNone, t)

\* Validate or wrap the datagram and put it on the queue. A ValueError from
\* create_pimap_sample is not caught: the worker process ends.
UdpClassifyPut(w) ==
  /\ wpc[w] = "got"
  /\ \E t \in ClockReads :
       LET pimap_datum == Classify(UdpSampleType, wloc[w].rx, t)
       IN /\ now' = IF validate_datum(wloc[w].rx.data) THEN now ELSE t
          /\ validate_datum(wloc[w].rx.data) => t = now
          /\ IF pimap_datum.ok
               THEN /\ pdq' = Put(pdq, w, pimap_datum.v)
                    /\ wpc' = [wpc EXCEPT ![w] = "loop"]
                    /\ wloc' = [wloc EXCEPT ![w].rx = NoDatagram]
               ELSE /\ wpc' = [wpc EXCEPT ![w] = "flush"]
                    /\ wloc' = [wloc EXCEPT ![w].raised = TRUE]
                    /\ UNCHANGED pdq
  /\ UNCHANGED <<transport, host, running, sockbuf, conns, ppc, ploc, raq,
                 mpc, mloc, system_samples, sensed_data,
                 system_samples_updated, latencies, results, sentLog, recvLog>>
  /\ UNCHANGED <<codecVars, restVars>>

\* The worker's feeder thread writes one queued item to the pipe.
UdpFeed(w) ==
  /\ CanFeed(pdq, w)
  /\ pdq' = Feed(pdq, w)
  /\ UNCHANGED <<transport, host, now, running, sockbuf, conns, wpc, wloc, ppc,
                 ploc, raq, mpc, mloc, system_samples, sensed_data,
                 system_samples_updated, latencies, results, sentLog, recvLog>>
  /\ UNCHANGED <<codecVars, restVars>>

\* The worker process ends once its feeder thread has written everything it
\* put (the queue joins the feeder thread at process exit).
UdpWorkerExit(w) ==
  /\ wpc[w] = "flush"
  /\ pdq.fbuf[w] = <<>>
  /\ wpc' = [wpc EXCEPT ![w] = "done"]
  /\ UNCHANGED <<transport, host, now, running, sockbuf, conns, wloc, ppc, ploc,
                 raq, pdq, mpc, mloc, system_samples, sensed_data,
                 system_samples_updated, latencies, results, sentLog, recvLog>>
  /\ UNCHANGED <<codecVars, restVars>>

\* close(), first line: self.running.value = False.
UdpCloseStart ==
  /\ mpc = "idle"
  /\ running' = FALSE
  /\ mpc' = "joining"
  /\ UNCHANGED <<transport, host, now, sockbuf, conns, wpc, wloc, ppc, ploc, raq,
                 pdq, mloc, system_samples, sensed_data,
                 system_samples_updated, latencies, results, sentLog, recvLog>>
  /\ UNCHANGED <<codecVars, restVars>>

\* close(): every worker_process.join() returned; self.socket.close().
UdpCloseJoin ==
  /\ mpc = "joining"
  /\ \A w \in Workers : wpc[w] = "done"
  /\ mpc' = "closed"
  /\ UNCHANGED <<transport, host, now, running, sockbuf, conns, wpc, wloc, ppc,
                 ploc, raq, pdq, mloc, system_samples, sensed_data,
                 system_samples_updated, latencies, results, sentLog, recvLog>>
  /\ UNCHANGED <<codecVars, restVars>>

UdpWorker(w) ==
  \/ UdpWorkerLoop(w)
  \/ UdpRecv(w)
  \/ UdpRecvTimeout(w)
  \/ UdpClassifyPut(w)
  \/ UdpFeed(w)
  \/ UdpWorkerExit(w)

UdpListener ==
  \/ \E w \in Workers : UdpWorker(w)
  \/ SenseGet
  \/ SenseReturn
  \/ UdpCloseStart
  \/ UdpCloseJoin

UdpNext == UdpListener \/ UdpSend

SpecUdp == UdpInit /\ [][UdpNext]_vars

-----------------------------------------------------------------------------
(* pimapsensetcp.py                                                        *)

\* Processes running _create_pimap_data_and_add_to_queue (pimap_workers).
PimapWorkers == 1

\* self.pimap_worker_processes: the classification workers that were
\* started.
PWorkers == DOMAIN ppc

\* Connections the clients open in one run.
MaxConns == 1

\* Byte streams a client sends on one connection, as the reads recv() makes
\* of them: single records, two records in one read, reads that mix a record
\* that validates with one that does not, text without a terminator, and a
\* terminator divided between two reads.
TcpStreams ==
  {<<In_v9>>, <<In_v10>>, <<In_vabc>>, <<In_v9 \o In_v10>>,
   <<In_text \o Terminator \o In_v9>>, <<In_v9 \o In_text \o Terminator>>,
   <<In_text>>, <<In_text \o <<";">>, <<";">> >>}

NoConn == 0

\* The listener after __init__ returned: socket listening, workers started.
TcpInit ==
  /\ CodecIdle
  /\ RestIdle
  /\ transport = "tcp"
  /\ now = ClockStart
  /\ running = TRUE
  /\ sockbuf = <<>>
  /\ conns = <<>>
  /\ wpc = [w \in Workers |-> "loop"]
  /\ wloc = [w \in Workers |->
               [conn |-> NoConn, received |-> <<>>, raised |-> FALSE]]
  /\ ppc = [p \in 1..PimapWorkers |-> "loop"]
  /\ ploc = [p \in 1..PimapWorkers |-> [raised |-> FALSE]]
  /\ raq = EmptyQueue(SenseWorkers)
  /\ pdq = EmptyQueue(PimapWorkers)
  /\ mpc = "idle"
  /\ mloc = <<>>
  /\ system_samples \in BOOLEAN
  /\ host \in Hosts
  /\ host = Host_ipv6 => system_samples
  /\ sensed_data = 0
  /\ system_samples_updated = ClockStart
  /\ latencies = <<>>
  /\ results = <<>>
  /\ sentLog = <<>>
  /\ recvLog = <<>>

\* A client connects and sends its stream.
TcpConnect ==
  /\ Len(conns) < MaxConns
  /\ mpc # "closed"
  /\ \E stream \in TcpStreams :
       /\ conns' = Append(conns,
                    [chunks |-> stream, open |-> TRUE, st |-> "pending"])
       /\ sentLog' = Append(sentLog, stream)
  /\ UNCHANGED <<transport, host, now, running, sockbuf, wpc, wloc, ppc, ploc, raq,
                 pdq, mpc, mloc, system_samples, sensed_data,
                 system_samples_updated, latencies, results, recvLog>>
  /\ UNCHANGED <<codecVars, restVars>>

\* A client closes its end of connection c.
TcpClientClose(c) ==
  /\ conns[c].open
  /\ conns' = [conns EXCEPT ![c].open = FALSE]
  /\ UNCHANGED <<transport, host, now, running, sockbuf, wpc, wloc, ppc, ploc, raq,
                 pdq, mpc, mloc, system_samples, sensed_data,
                 system_samples_updated, latencies, results, sentLog, recvLog>>
  /\ UNCHANGED <<codecVars, restVars>>

\* while self.running.value:
TcpWorkerLoop(w) ==
  /\ wpc[w] = "loop"
  /\ wpc' = [wpc EXCEPT ![w] = IF running THEN "accept" ELSE "flush"]
  /\ UNCHANGED <<transport, host, now, running, sockbuf, conns, wloc, ppc, ploc,
                 raq, pdq, mpc, mloc, system_samples, sensed_data,
                 system_samples_updated, latencies, results, sentLog, recvLog>>
  /\ UNCHANGED <<codecVars, restVars>>

Pending == {c \in 1..Len(conns) : conns[c].st = "pending"}

\* self.socket.accept() returns the oldest waiting connection; received = "".
TcpAccept(w) ==
  /\ wpc[w] = "accept"
  /\ Pending # {}
  /\ LET c == CHOOSE a \in Pending : \A b \in Pending : a <= b
     IN /\ conns' = [conns EXCEPT ![c].st = "accepted"]
        /\ wloc' = [wloc EXCEPT ![w].conn = c, ![w].received = <<>>]
  /\ wpc' = [wpc EXCEPT ![w] = "recv"]
  /\ UNCHANGED <<transport, host, now, running, sockbuf, ppc, ploc, raq, pdq, mpc,
                 mloc, system_samples, sensed_data, system_samples_updated,
                 latencies, results, sentLog, recvLog>>
  /\ UNCHANGED <<codecVars, restVars>>

\* accept() raises socket.timeout: continue.
TcpAcceptTimeout(w) ==
  /\ wpc[w] = "accept"
  /\ Pending = {}
  /\ wpc' = [wpc EXCEPT ![w] = "loop"]
  /\ UNCHANGED <<transport, host, now, running, sockbuf, conns, wloc, ppc, ploc,
                 raq, pdq, mpc, mloc, system_samples, sensed_data,
                 system_samples_updated, latencies, results, sentLog, recvLog>>
  /\ UNCHANGED <<codecVars, restVars>>

\* x + ";;" for every record of a batch.
Terminated(processed) ==
  [i \in 1..Len(processed) |-> processed[i] \o Terminator]

\* The two bytes of a character that UTF-8 encodes in two bytes, and the
\* character.
Byte_C3 == "C3"
Byte_A9 == "A9"
Char_E9 == "U+00E9"

UnicodeDecodeError == [ok |-> FALSE, v |-> <<>>]

\* Every first byte of two is followed by a second one, and every second
\* byte follows a first one.
IsUtf8(b) ==
  \A i \in 1..Len(b) :
    /\ b[i] = Byte_C3 => i < Len(b) /\ b[i + 1] = Byte_A9
    /\ b[i] = Byte_A9 => i > 1 /\ b[i - 1] = Byte_C3

\* The characters of a byte string that is UTF-8, every other byte being
\* the one-byte character it encodes.
Utf8Text(b) ==
  SelectSeq([i \in 1..Len(b) |-> IF b[i] = Byte_C3 THEN Char_E9 ELSE b[i]],
            LAMBDA ch : ch # Byte_A9)

\* bytes.decode(): the text of a byte string that is UTF-8 by itself.
decode(b) == IF IsUtf8(b) THEN Ok(Utf8Text(b)) ELSE UnicodeDecodeError

\* The window holds three pieces or more: two terminators.
HasTerminator_Twice(received) == Len(PySplit(received, Terminator)) > 2

\* if terminator in received:
HasTerminator(received) == Contains(received, Terminator)

\* received after  received += received_coded.decode()  and the if that
\* follows it.
RecvWindow(received) ==
  IF HasTerminator(received)
    THEN PySplit(received, Terminator)[Len(PySplit(received, Terminator))]
    ELSE received

\* processed: received_split[:-1].
RecvProcessed(received) ==
  SubSeq(PySplit(received, Terminator), 1,
         Len(PySplit(received, Terminator)) - 1)

\* conn.recv() returns data: one pass of  while received_coded. A
\* UnicodeDecodeError from decode() is not caught: the with block closes the
\* connection and the worker process ends.
TcpRecv(w) ==
  /\ wpc[w] = "recv"
  /\ conns[wloc[w].conn].chunks # <<>>
  /\ \E c \in {wloc[w].conn} :
     \E decoded \in {decode(Head(conns[c].chunks))} :
     \E received \in {wloc[w].received \o decoded.v} :
        IF decoded.ok
          THEN /\ conns' = [conns EXCEPT ![c].chunks = Tail(@)]
               /\ wloc' = [wloc EXCEPT ![w].received = RecvWindow(received)]
               /\ IF HasTerminator(received)
                    THEN /\ raq' = Put(raq, w,
                                      [processed |-> RecvProcessed(received),
                                       address |-> ClientAddr(ClientPort)])
                         /\ recvLog' = recvLog \o
                              SelectSeq(Terminated(RecvProcessed(received)),
                                        validate_datum)
                    ELSE UNCHANGED <<raq, recvLog>>
               /\ UNCHANGED wpc
          ELSE /\ conns' = [conns EXCEPT ![c].chunks = Tail(@),
                                         ![c].st = "closed"]
               /\ wloc' = [wloc EXCEPT ![w].raised = TRUE]
               /\ wpc' = [wpc EXCEPT ![w] = "flush"]
               /\ UNCHANGED <<raq, recvLog>>
  /\ UNCHANGED <<transport, host, now, running, sockbuf, ppc, ploc, pdq, mpc,
                 mloc, system_samples, sensed_data, system_samples_updated,
                 latencies, results, sentLog>>
  /\ UNCHANGED <<codecVars, restVars>>

\* The end of the stream with a put of what received still holds.
TcpRecvEof_PutsTail(w) ==
  /\ wpc[w] = "recv"
  /\ conns[wloc[w].conn].chunks = <<>>
  /\ ~conns[wloc[w].conn].open
  /\ conns' = [conns EXCEPT ![wloc[w].conn].st = "closed"]
  /\ wloc' = [wloc EXCEPT ![w].conn = NoConn, ![w].received = <<>>]
  /\ wpc' = [wpc EXCEPT ![w] = "loop"]
  /\ raq' = IF wloc[w].received = <<>> THEN raq
            ELSE Put(raq, w, [processed |-> <<wloc[w].received>>,
                              address |-> ClientAddr(ClientPort)])
  /\ UNCHANGED <<transport, host, now, running, sockbuf, ppc, ploc, pdq, mpc,
                 mloc, system_samples, sensed_data, system_samples_updated,
                 latencies, results, sentLog, recvLog>>
  /\ UNCHANGED <<codecVars, restVars>>

\* conn.recv() returns b"" (the client closed): the loop and the with block
\* end, and what received still holds goes with them.
TcpRecvEof(w) ==
  /\ wpc[w] = "recv"
  /\ conns[wloc[w].conn].chunks = <<>>
  /\ ~conns[wloc[w].conn].open
  /\ conns' = [conns EXCEPT ![wloc[w].conn].st = "closed"]
  /\ wloc' = [wloc EXCEPT ![w].conn = NoConn, ![w].received = <<>>]
  /\ wpc' = [wpc EXCEPT ![w] = "loop"]
  /\ UNCHANGED <<transport, host, now, running, sockbuf, ppc, ploc, raq, pdq, mpc,
                 mloc, system_samples, sensed_data, system_samples_updated,
                 latencies, results, sentLog, recvLog>>
  /\ UNCHANGED <<codecVars, restVars>>

\* The accept-worker's feeder thread writes one queued batch to the pipe.
TcpFeedRaq(w) ==
  /\ CanFeed(raq, w)
  /\ raq' = Feed(raq, w)
  /\ UNCHANGED <<transport, host, now, running, sockbuf, conns, wpc, wloc, ppc,
                 ploc, pdq, mpc, mloc, system_samples, sensed_data,
                 system_samples_updated, latencies, results, sentLog, recvLog>>
  /\ UNCHANGED <<codecVars, restVars>>

\* The accept-worker process ends once its feeder thread has written
\* everything it put.
TcpWorkerExit(w) ==
  /\ wpc[w] = "flush"
  /\ raq.fbuf[w] = <<>>
  /\ wpc' = [wpc EXCEPT ![w] = "done"]
  /\ UNCHANGED <<transport, host, now, running, sockbuf, conns, wloc, ppc, ploc,
                 raq, pdq, mpc, mloc, system_samples, sensed_data,
                 system_samples_updated, latencies, results, sentLog, recvLog>>
  /\ UNCHANGED <<codecVars, restVars>>

\* while self.running.value:
TcpPimapLoop(p) ==
  /\ ppc[p] = "loop"
  /\ ppc' = [ppc EXCEPT ![p] = IF running THEN "check" ELSE "flush"]
  /\ UNCHANGED <<transport, host, now, running, sockbuf, conns, wpc, wloc, ploc,
                 raq, pdq, mpc, mloc, system_samples, sensed_data,
                 system_samples_updated, latencies, results, sentLog, recvLog>>
  /\ UNCHANGED <<codecVars, restVars>>

\* if not self.received_address_queue.empty():
TcpPimapCheck(p) ==
  /\ ppc[p] = "check"
  /\ ppc' = [ppc EXCEPT ![p] = IF raq.pipe = <<>> THEN "loop" ELSE "get"]
  /\ UNCHANGED <<transport, host, now, running, sockbuf, conns, wpc, wloc, ploc,
                 raq, pdq, mpc, mloc, system_samples, sensed_data,
                 system_samples_updated, latencies, results, sentLog, recvLog>>
  /\ UNCHANGED <<codecVars, restVars>>

\* The else branch: create_pimap_sample for each record in turn, up to the
\* first that raises. Every call of one batch reads the clock as t.
RECURSIVE WrapAll(_, _, _)
WrapAll(processed, address, t) ==
  IF processed = <<>> THEN [puts |-> <<>>, raised |-> FALSE]
  ELSE LET pimap_datum ==
             create_pimap_sample(PyS(TcpSampleType), address.ip, address.port,
                                 PyS(Head(processed)), PyNone, t)
           rest == WrapAll(Tail(processed), address, t)
       IN IF pimap_datum.ok
            THEN [puts |-> <<pimap_datum.v>> \o rest.puts,
                  raised |-> rest.raised]
            ELSE [puts |-> <<>>, raised |-> TRUE]

\* The if branch: get_patient_id and get_device_id of each record in turn,
\* then put(), up to the first record for which a getter raises.
RECURSIVE ForwardAll(_)
ForwardAll(pimap_data) ==
  IF pimap_data = <<>> THEN [puts |-> <<>>, raised |-> FALSE]
  ELSE IF ~get_patient_id(Head(pimap_data)).ok
            \/ ~get_device_id(Head(pimap_data)).ok
    THEN [puts |-> <<>>, raised |-> TRUE]
  ELSE [ForwardAll(Tail(pimap_data)) EXCEPT !.puts = <<Head(pimap_data)>> \o @]

\* What the worker puts for one batch: the first record decides for all.
ProcessBatch(item, t) ==
  IF validate_datum(item.processed[1] \o Terminator)
    THEN ForwardAll(Terminated(item.processed) \o <<>>)
    ELSE WrapAll(item.processed, item.address, t)

\* self.received_address_queue.get() returns a batch, and the batch is
\* classified and put on the output queue. A ValueError from a getter or
\* from create_pimap_sample is not caught: the worker process ends.
TcpPimapGet(p) ==
  /\ ppc[p] = "get"
  /\ raq.pipe # <<>>
  /\ \E t \in ClockReads :
       LET item == Head(raq.pipe)
           wraps == ~validate_datum(item.processed[1] \o Terminator)
           out == ProcessBatch(item, t)
       IN /\ ~wraps => t = now
          /\ now' = t
          /\ pdq' = PutAll(pdq, p, out.puts)
          /\ ppc' = [ppc EXCEPT ![p] = IF out.raised THEN "flush" ELSE "loop"]
          /\ ploc' = [ploc EXCEPT ![p].raised = out.raised]
  /\ raq' = [raq EXCEPT !.pipe = Tail(@)]
  /\ UNCHANGED <<transport, host, running, sockbuf, conns, wpc, wloc, mpc, mloc,
                 system_samples, sensed_data, system_samples_updated,
                 latencies, results, sentLog, recvLog>>
  /\ UNCHANGED <<codecVars, restVars>>

\* The classification worker's feeder thread writes one datum to the pipe.
TcpFeedPdq(p) ==
  /\ CanFeed(pdq, p)
  /\ pdq' = Feed(pdq, p)
  /\ UNCHANGED <<transport, host, now, running, sockbuf, conns, wpc, wloc, ppc,
                 ploc, raq, mpc, mloc, system_samples, sensed_data,
                 system_samples_updated, latencies, results, sentLog, recvLog>>
  /\ UNCHANGED <<codecVars, restVars>>

\* The classification worker process ends once its feeder thread has
\* written everything it put.
TcpPimapExit(p) ==
  /\ ppc[p] = "flush"
  /\ pdq.fbuf[p] = <<>>
  /\ ppc' = [ppc EXCEPT ![p] = "done"]
  /\ UNCHANGED <<transport, host, now, running, sockbuf, conns, wpc, wloc, ploc,
                 raq, pdq, mpc, mloc, system_samples, sensed_data,
                 system_samples_updated, latencies, results, sentLog, recvLog>>
  /\ UNCHANGED <<codecVars, restVars>>

\* close(), first line: self.running.value = False.
TcpCloseStart ==
  /\ mpc = "idle"
  /\ running' = FALSE
  /\ mpc' = "drain_pdq"
  /\ UNCHANGED <<transport, host, now, sockbuf, conns, wpc, wloc, ppc, ploc, raq,
                 pdq, mloc, system_samples, sensed_data,
                 system_samples_updated, latencies, results, sentLog, recvLog>>
  /\ UNCHANGED <<codecVars, restVars>>

\* close(): one pass of  while not self.pimap_data_queue.empty(): get().
TcpCloseDrainPdq ==
  /\ mpc = "drain_pdq"
  /\ IF pdq.pipe # <<>>
       THEN pdq' = [pdq EXCEPT !.pipe = Tail(@)] /\ UNCHANGED mpc
       ELSE mpc' = "drain_raq" /\ UNCHANGED pdq
  /\ UNCHANGED <<transport, host, now, running, sockbuf, conns, wpc, wloc, ppc,
                 ploc, raq, mloc, system_samples, sensed_data,
                 system_samples_updated, latencies, results, sentLog, recvLog>>
  /\ UNCHANGED <<codecVars, restVars>>

\* close(): one pass of  while not self.received_address_queue.empty(): get().
TcpCloseDrainRaq ==
  /\ mpc = "drain_raq"
  /\ IF raq.pipe # <<>>
       THEN raq' = [raq EXCEPT !.pipe = Tail(@)] /\ UNCHANGED mpc
       ELSE mpc' = "joining" /\ UNCHANGED raq
  /\ UNCHANGED <<transport, host, now, running, sockbuf, conns, wpc, wloc, ppc,
                 ploc, pdq, mloc, system_samples, sensed_data,
                 system_samples_updated, latencies, results, sentLog, recvLog>>
  /\ UNCHANGED <<codecVars, restVars>>

\* close(): every join() of both pools returned; self.socket.close().
TcpCloseJoin ==
  /\ mpc = "joining"
  /\ \A w \in Workers : wpc[w] = "done"
  /\ \A p \in PWorkers : ppc[p] = "done"
  /\ mpc' = "closed"
  /\ UNCHANGED <<transport, host, now, running, sockbuf, conns, wpc, wloc, ppc,
                 ploc, raq, pdq, mloc, system_samples, sensed_data,
                 system_samples_updated, latencies, results, sentLog, recvLog>>
  /\ UNCHANGED <<codecVars, restVars>>

TcpWorker(w) ==
  \/ TcpWorkerLoop(w)
  \/ TcpAccept(w)
  \/ TcpAcceptTimeout(w)
  \/ TcpRecv(w)
  \/ TcpRecvEof(w)
  \/ TcpFeedRaq(w)
  \/ TcpWorkerExit(w)

TcpPimapWorker(p) ==
  \/ TcpPimapLoop(p)
  \/ TcpPimapCheck(p)
  \/ TcpPimapGet(p)
  \/ TcpFeedPdq(p)
  \/ TcpPimapExit(p)

TcpClose == TcpCloseStart \/ TcpCloseDrainPdq \/ TcpCloseDrainRaq \/ TcpCloseJoin

TcpListener ==
  \/ \E w \in Workers : TcpWorker(w)
  \/ \E p \in PWorkers : TcpPimapWorker(p)
  \/ SenseGet
  \/ SenseReturn
  \/ TcpClose

TcpClient == TcpConnect \/ \E c \in 1..Len(conns) : TcpClientClose(c)

TcpNext == TcpListener \/ TcpClient

SpecTcp == TcpInit /\ [][TcpNext]_vars

-----------------------------------------------------------------------------
(* Listener properties                                                     *)

RECURSIVE Flat(_)
Flat(ss) == IF ss = <<>> THEN <<>> ELSE Head(ss) \o Flat(Tail(ss))

Count(seq, d) == Cardinality({i \in 1..Len(seq) : seq[i] = d})

\* Everything a queue holds: in the pipe and in the putters' buffers.
QueueItems(q) == q.pipe \o Flat(q.fbuf)

\* Received units no worker has classified yet.
RawInFlight ==
  IF transport = "udp"
    THEN Flat([w \in Workers |->
                 IF wpc[w] = "got" THEN <<wloc[w].rx.data>> ELSE <<>>])
    ELSE Flat([i \in 1..Len(QueueItems(raq)) |->
                 Terminated(QueueItems(raq)[i].processed)])

\* Datums between a worker's receive and a sense() return.
DataInFlight == RawInFlight \o QueueItems(pdq) \o mloc

\* The data sense() returned, call after call.
Returned ==
  Flat([r \in 1..Len(results) |->
          IF results[r].ok THEN results[r].data ELSE <<>>])

FloatTimestamp(d) == FloatVal(get_timestamp(d).v)

SortedByFloat(data) ==
  \A i, j \in 1..Len(data) :
    i < j => FloatTimestamp(data[i]) <= FloatTimestamp(data[j])

\* C1: while the listener is running, every conforming datum a worker
\* received is either still on its way to sense() or in the result of
\* exactly one sense() call, and sense() returned no conforming datum more
\* often than it was received.
C1_NoLossNoDuplication ==
  running =>
    \A d \in {In_v9, In_v10, In_vabc} :
      Count(recvLog, d) = Count(DataInFlight, d) + Count(Returned, d)

\* C2: the data one sense() call returns is in non-decreasing order of the
\* timestamps compared as floating-point numbers.
C2_SortedWithinCall ==
  \A r \in 1..Len(results) :
    results[r].ok => SortedByFloat(results[r].data)

\* C3: when the datagrams were sent with strictly increasing timestamps and
\* every single sense() result is in timestamp order, the results of the
\* sense() calls, concatenated in call order, are in timestamp order.
C3_ConcatenationOrdered ==
  ( /\ transport = "udp"
    /\ \A i \in 1..Len(sentLog) : validate_datum(sentLog[i])
    /\ \A i, j \in 1..Len(sentLog) :
         i < j => FloatTimestamp(sentLog[i]) < FloatTimestamp(sentLog[j])
    /\ C2_SortedWithinCall )
  => SortedByFloat(Returned)

\* C4: whatever a datagram holds, the worker handling it raises no
\* exception, is alive while the running flag is true, and has put one datum
\* on the output queue for every datagram it is done with.
C4_MalformedHandled ==
  transport = "udp" =>
    /\ \A w \in Workers : ~wloc[w].raised
    /\ running => \A w \in Workers : wpc[w] \notin {"flush", "done"}
    /\ running =>
         Len(DataInFlight) + Len(Returned) = Len(sentLog) - Len(sockbuf)

\* C5: a close() in progress can always go on: as long as it has not
\* returned, a worker can take a step or the joins can return; and when it
\* has returned, every worker has terminated.
C5_CloseReturns ==
  transport = "udp" =>
    /\ mpc = "joining" =>
         ENABLED ((\E w \in Workers : UdpWorker(w)) \/ UdpCloseJoin)
    /\ mpc = "closed" => \A w \in Workers : wpc[w] = "done"

\* C6: once the running flag is false, every accept() and recv() an
\* accept-worker is in can return by itself: with a connection or data, with
\* the end of the stream, or with a timeout.
C6_NetworkCallsReturn ==
  transport = "tcp" =>
    \A w \in Workers :
      (~running /\ wpc[w] \in {"accept", "recv"}) =>
        ENABLED (TcpAccept(w) \/ TcpAcceptTimeout(w) \/ TcpRecv(w)
                   \/ TcpRecvEof(w))

-----------------------------------------------------------------------------
(* Codec properties                                                        *)

\* The timestamp string a create_pimap_sample call encodes.
ArgTimestamp == IF cargs.ts = PyNone THEN PyStr(PyF(now)) ELSE PyStr(cargs.ts)

\* The five key:value fields the last create_* call was asked to encode.
EncodedFields ==
  IF cres.kind = "sample"
    THEN <<K_sample \o <<"_">> \o K_type \o <<":">> \o PyStr(cargs.type),
           K_patient_id \o <<":">> \o PyStr(cargs.pid),
           K_device_id \o <<":">> \o PyStr(cargs.did),
           K_sample \o <<":">> \o PyStr(cargs.sample),
           K_timestamp \o <<":">> \o ArgTimestamp>>
    ELSE <<K_metric \o <<"_">> \o K_type \o <<":">> \o PyStr(cmargs.type),
           K_patient_id \o <<":">> \o get_patient_id(csrc).v,
           K_device_id \o <<":">> \o get_device_id(csrc).v,
           K_metric \o <<":">> \o PyStr(cmargs.metric),
           K_timestamp \o <<":">> \o get_timestamp(csrc).v>>

\* C7: decoding an encoded Sample or Metric returns exactly the type, patient
\* id, device id, payload and timestamp that were encoded (for a Metric the
\* ids and timestamp of its source datum).
C7_RoundTrip ==
  /\ (cpc = "decoded" /\ cres.kind = "sample") =>
       /\ cdec.type = Ok(PyStr(cargs.type))
       /\ cdec.pid = Ok(PyStr(cargs.pid))
       /\ cdec.did = Ok(PyStr(cargs.did))
       /\ cdec.data = Ok(PyStr(cargs.sample))
       /\ cdec.ts = Ok(ArgTimestamp)
  /\ (cpc = "decoded" /\ cres.kind = "metric") =>
       /\ cdec.type = Ok(PyStr(cmargs.type))
       /\ cdec.pid = get_patient_id(csrc)
       /\ cdec.did = get_device_id(csrc)
       /\ cdec.data = Ok(PyStr(cmargs.metric))
       /\ cdec.ts = get_timestamp(csrc)

\* C8: create_pimap_sample and create_pimap_metric raise ValueError whenever
\* the type or an id holds ":" or ";", the payload holds a reserved keyword or
\* ";", or the timestamp is not a float.
C8_Rejection ==
  /\ (cres.kind = "sample" /\
        (\/ HasDelimiter(PyStr(cargs.type))
         \/ HasDelimiter(PyStr(cargs.pid))
         \/ HasDelimiter(PyStr(cargs.did))
         \/ \E key \in {K_patient_id, K_device_id, K_sample, K_timestamp,
                        <<";">>} : Contains(PyStr(cargs.sample), key)
         \/ ~IsFloatStr(ArgTimestamp)))
       => ~cres.ok
  /\ (cres.kind = "metric" /\
        (\/ HasDelimiter(PyStr(cmargs.type))
         \/ HasDelimiter(get_patient_id(csrc).v)
         \/ HasDelimiter(get_device_id(csrc).v)
         \/ \E key \in {K_patient_id, K_device_id, K_metric, K_timestamp,
                        <<";">>} : Contains(PyStr(cmargs.metric), key)
         \/ ~IsFloatStr(get_timestamp(csrc).v)))
       => ~cres.ok

\* C9: validate_datum is true of every datum the encoder returns.
C9_ValidateAcceptsEncoded ==
  (cpc = "decoded" /\ cres.kind \in {"sample", "metric"}) => cdec.valid

\* C10: every datum the encoder returns is the five key:value fields in the
\* fixed order, each followed by ";", then one more ";", and ";;" occurs at
\* the end only.
C10_WireFormat ==
  (cres.ok /\ cres.kind \in {"sample", "metric"}) =>
    LET pieces == PySplit(cres.v, <<";">>)
    IN /\ Len(pieces) = 7
       /\ \A i \in 1..5 : pieces[i] = EncodedFields[i]
       /\ pieces[6] = <<>> /\ pieces[7] = <<>>
       /\ {i \in 1..Len(cres.v) : IsAt(cres.v, i, Terminator)}
            = {Len(cres.v) - 1}

\* A Metric was encoded from an encoded Sample, with a non-string payload and
\* a Sample whose timestamp was a float and whose ids were ints.
C10_Witness ==
  /\ cres.ok /\ cres.kind = "metric"
  /\ cmargs.metric = PyI(5)
  /\ cargs.ts = PyF(7) /\ cargs.pid = PyI(2) /\ cargs.did = PyI(3)


-----------------------------------------------------------------------------
(* pimapanalyzeobjectivemobility.py: the plane through three centroids     *)

\* The max_pressure the analyzer is constructed with.
max_pressure == 3

K_pressure_bandage ==
  <<"p", "r", "e", "s", "s", "u", "r", "e", "_", "b", "a", "n", "d", "a",
  "g", "e">>
K_objective_mobility ==
  <<"o", "b", "j", "e", "c", "t", "i", "v", "e", "_", "m", "o", "b", "i",
  "l", "i", "t", "y">>

\* A reading is four rows of four cells, row y then column x, each a digit.
GridOf(f(_, _)) == [y \in 1..4 |-> [x \in 1..4 |-> f(x - 1, y - 1)]]
FlatValue(x, y) == 2
ColumnValue(x, y) == x
ReversedValue(x, y) == 3 - x
RowValue(x, y) == y
SumValue(x, y) == x + y
Grid_flat == GridOf(FlatValue)
Grid_column == GridOf(ColumnValue)
Grid_reversed == GridOf(ReversedValue)
Grid_row == GridOf(RowValue)
Grid_sum == GridOf(SumValue)
Grids == {Grid_flat, Grid_column, Grid_reversed, Grid_row, Grid_sum}

\* str(row) and str({"pressure_bandage": grid}).
RowStr(r) ==
  <<"[">> \o IntStr(r[1]) \o <<",", " ">> \o IntStr(r[2]) \o <<",", " ">> \o
  IntStr(r[3]) \o <<",", " ">> \o IntStr(r[4]) \o <<"]">>
GridStr(g) ==
  DictStr(<<DictEntry(K_pressure_bandage,
                      <<"[">> \o RowStr(g[1]) \o <<",", " ">> \o RowStr(g[2]) \o
                      <<",", " ">> \o RowStr(g[3]) \o <<",", " ">> \o
                      RowStr(g[4]) \o <<"]">>)>>)

\* The grid whose cells are the digits digs, row after row.
DigitGrid(digs) == [y \in 1..4 |-> [x \in 1..4 |-> DigitVal(digs[4 * (y - 1) + x])]]

\* ast.literal_eval(s)["pressure_bandage"] for the payloads of the model:
\* the grid that s is the str() of, or the exception raised on any other
\* text.
GridOfDigits(s, digs) ==
  IF Len(digs) = 16 /\ s = GridStr(DigitGrid(digs)) THEN Ok(DigitGrid(digs))
  ELSE ValueError
ParseGrid(s) == GridOfDigits(s, SelectSeq(s, IsDigit))

\* The cells of the three centroids, as zero-based x and y indices.
c0_xlocs == <<0, 1, 2, 3, 2, 3>>
c0_ylocs == <<0, 0, 0, 0, 1, 2>>
c1_xlocs == <<0, 0, 1, 0, 1>>
c1_ylocs == <<1, 2, 2, 3, 3>>
c2_xlocs == <<3, 2, 3, 2, 3, 2>>
c2_ylocs == <<1, 2, 2, 3, 3, 1>>

\* A common multiple of the numbers of cells of the centroids.
CellUnit == 30

\* np.mean(locs/3.0), in (3 * CellUnit)-ths.
MeanLoc(locs) == SumSeq(locs) * (CellUnit \div Len(locs))

\* np.mean(normalized[ylocs, xlocs]), in (CellUnit * max_pressure)-ths.
MeanPressure(g, xlocs, ylocs) ==
  SumSeq([k \in 1..Len(xlocs) |-> g[ylocs[k] + 1][xlocs[k] + 1]]) *
  (CellUnit \div Len(xlocs))

Centroid(g, xlocs, ylocs) ==
  [x |-> MeanLoc(xlocs), y |-> MeanLoc(ylocs), z |-> MeanPressure(g, xlocs, ylocs)]

Minus(p, q) == [x |-> p.x - q.x, y |-> p.y - q.y, z |-> p.z - q.z]

\* np.cross(v0, v1)
Cross(v0, v1) ==
  [a |-> v0.y * v1.z - v0.z * v1.y,
   b |-> v0.z * v1.x - v0.x * v1.z,
   c |-> v0.x * v1.y - v0.y * v1.x]

\* The normal through three centroids: a and b come out in
\* (3 * CellUnit * CellUnit * max_pressure)-ths, c in (3 * CellUnit)^2-ths.
NormalOf(c0, c1, c2) == Cross(Minus(c1, c0), Minus(c2, c0))

\* n = np.cross(c1 - c0, c2 - c0)
Normal(g) ==
  NormalOf(Centroid(g, c0_xlocs, c0_ylocs), Centroid(g, c1_xlocs, c1_ylocs),
           Centroid(g, c2_xlocs, c2_ylocs))

\* A fraction with a positive denominator.
Fraction(num, den) ==
  IF den < 0 THEN [num |-> -num, den |-> -den] ELSE [num |-> num, den |-> den]

\* The slopes with the sign of a/c and b/c.
Slopes_Uphill(g) ==
  [x |-> Fraction(3 * Normal(g).a, Normal(g).c * max_pressure),
   y |-> Fraction(3 * Normal(g).b, Normal(g).c * max_pressure)]

\* -a/c and -b/c of the normal n: the units of a and of c differ by the
\* factor 3 / max_pressure.
SlopesOf(n) ==
  [x |-> Fraction(-3 * n.a, n.c * max_pressure),
   y |-> Fraction(-3 * n.b, n.c * max_pressure)]
Slopes(g) == SlopesOf(Normal(g))

\* 360 * arctan(q) / (2 * pi) in degrees, for the slopes the grids of the
\* model have.
ArctanDegrees(q) ==
  CASE q.num = 0 -> 0
    [] q.num = q.den -> 45
    [] q.num = -q.den -> -45

K_x_angle == <<"x", "_", "a", "n", "g", "l", "e">>
K_y_angle == <<"y", "_", "a", "n", "g", "l", "e">>
K_x_angle_units == <<"x", "_", "a", "n", "g", "l", "e", "_", "u", "n", "i", "t", "s">>
K_y_angle_units == <<"y", "_", "a", "n", "g", "l", "e", "_", "u", "n", "i", "t", "s">>
K_degrees == <<"d", "e", "g", "r", "e", "e", "s">>
K_xy_gradient == <<"x", "y", "_", "g", "r", "a", "d", "i", "e", "n", "t">>
K_movements_per_min == <<"m", "o", "v", "e", "m", "e", "n", "t", "s", "_", "p", "e", "r", "_",
  "m", "i", "n">>

\* str() of the angle metric of a reading whose slopes are q.
AngleDict(q) ==
  DictStr(<<DictEntry(K_x_angle, FloatStr(ArctanDegrees(q.x), 0)),
            DictEntry(K_x_angle_units, Quoted(K_degrees)),
            DictEntry(K_y_angle, FloatStr(ArctanDegrees(q.y), 0)),
            DictEntry(K_y_angle_units, Quoted(K_degrees))>>)
AngleMetric(g) == AngleDict(Slopes(g))


-----------------------------------------------------------------------------
(* pimapanalyzeobjectivemobility.py: analyze()                             *)

\* Periods, in hundredths of a second.
aggregation_period == 5
analyze_period == 5
system_samples_update_period == 100

\* aggregation_limit is kept in LimitUnit-ths of a sample, so that halving
\* it MaxHalvings times is exact.
LimitUnit == 128
InitialLimit == 100
gradient_period == 5

\* The length of the sliding window of the rate, scaled down from 600.
movements_per_min_period == 4

K_temp == <<"t", "e", "m", "p">>
K_analyze == <<"a", "n", "a", "l", "y", "z", "e">>
K_throughput_in == <<"t", "h", "r", "o", "u", "g", "h", "p", "u", "t", "_", "i", "n">>
K_throughput_out == <<"t", "h", "r", "o", "u", "g", "h", "p", "u", "t", "_", "o", "u", "t">>
K_aggregation_limit ==
  <<"a", "g", "g", "r", "e", "g", "a", "t", "i", "o", "n", "_", "l", "i",
  "m", "i", "t">>
K_aggregation == <<"a", "g", "g", "r", "e", "g", "a", "t", "i", "o", "n">>
K_inf == <<"i", "n", "f">>
K_nan == <<"n", "a", "n">>

PyList(items) == [t |-> "list", s |-> items, n |-> 0]

\* The dicts keyed by (patient_id, device_id), in insertion order.
KeyIndex(dict, pid, did) ==
  IF \A k \in 1..Len(dict) : dict[k].pid # pid \/ dict[k].did # did THEN 0
  ELSE CHOOSE k \in 1..Len(dict) : dict[k].pid = pid /\ dict[k].did = did

ExtendAt(dict, k, pid, did, items) ==
  IF k = 0 THEN Append(dict, [pid |-> pid, did |-> did, items |-> items])
  ELSE [dict EXCEPT ![k].items = @ \o items]

\* dict[(pid, did)].extend(items) on a defaultdict(list).
DictExtend(dict, pid, did, items) ==
  ExtendAt(dict, KeyIndex(dict, pid, did), pid, did, items)

\* ast.literal_eval(get_sample(d))["pressure_bandage"]
SampleGridOf(s) == IF s.ok THEN ParseGrid(s.v) ELSE ValueError
SampleGrid(d) == SampleGridOf(get_sample(d))

\* The angle PIMAP metric of one buffered sample, or the exception that the
\* payload or the sample's fields raise.
AngleFrom(d, g) ==
  IF ~g.ok THEN ValueError
  ELSE create_pimap_metric(PyS(K_objective_mobility), d, PyS(AngleMetric(g.v)))
AngleOf(d) == AngleFrom(d, SampleGrid(d))

\* A list comprehension, evaluated once.
List(f) == f \o <<>>

\* The loop that files each angle metric under its identity.
RECURSIVE SaveAngles(_, _)
SaveAngles(dict, pmetrics) ==
  IF pmetrics = <<>> THEN dict
  ELSE SaveAngles(DictExtend(dict, get_patient_id(Head(pmetrics)).v,
                             get_device_id(Head(pmetrics)).v, <<Head(pmetrics)>>),
                  Tail(pmetrics))

\* float(ast.literal_eval(get_metric(x))[key]), in hundredths.
MetricValue(x, key) == SignedFloatVal(DictGet(get_metric(x).v, key).v)

\* np.gradient(f) for a list of at least two values.
NpGradient(f) ==
  [i \in 1..Len(f) |->
     IF i = 1 THEN f[2] - f[1]
     ELSE IF i = Len(f) THEN f[i] - f[i - 1]
     ELSE (f[i + 1] - f[i - 1]) \div 2]

Max(a, b) == IF a >= b THEN a ELSE b

\* str() of the gradient metric for the gradients gx and gy of the angles.
GradientDict(gx, gy) ==
  DictStr(<<DictEntry(K_xy_gradient, FloatStr(Max(Abs(gx), Abs(gy)), 2))>>)

GradientsOf(saved, x_gradient, y_gradient) ==
  List([i \in 1..Len(saved) |->
          create_pimap_metric(PyS(K_objective_mobility), saved[i],
                              PyS(GradientDict(x_gradient[i], y_gradient[i]))).v])

\* The xy_gradient PIMAP metrics of the saved angle metrics of one identity.
GradientMetrics(saved) ==
  GradientsOf(
    saved,
    NpGradient(List([i \in 1..Len(saved) |-> MetricValue(saved[i], K_x_angle)])),
    NpGradient(List([i \in 1..Len(saved) |-> MetricValue(saved[i], K_y_angle)])))

\* One step of the loop below, new being the gradient metrics of entry k.
GradientStep(rest, new) == [rest EXCEPT !.out = new \o @]

\* The loop with a window that slides: only the oldest angle metric of a
\* window leaves the accumulator.
RECURSIVE GradientLoop_Sliding(_, _, _)
GradientLoop_Sliding(angle, grad, k) ==
  IF k > Len(angle) THEN [angle |-> angle, grad |-> grad, out |-> <<>>]
  ELSE IF Len(angle[k].items) >= gradient_period
    THEN GradientStep(
           GradientLoop_Sliding([angle EXCEPT ![k].items = Tail(@)],
                                DictExtend(grad, angle[k].pid, angle[k].did,
                                           GradientMetrics(angle[k].items)),
                                k + 1),
           GradientMetrics(angle[k].items))
    ELSE GradientLoop_Sliding(angle, grad, k + 1)

\* The loop over saved_angle_pmetrics_by_id.
RECURSIVE GradientLoop(_, _, _)
RECURSIVE GradientEntry(_, _, _, _)
GradientEntry(angle, grad, k, new) ==
  GradientStep(GradientLoop([angle EXCEPT ![k].items = <<>>],
                            DictExtend(grad, angle[k].pid, angle[k].did, new), k + 1),
               new)
GradientLoop(angle, grad, k) ==
  IF k > Len(angle) THEN [angle |-> angle, grad |-> grad, out |-> <<>>]
  ELSE IF Len(angle[k].items) >= gradient_period
    THEN GradientEntry(angle, grad, k, GradientMetrics(angle[k].items))
    ELSE GradientLoop(angle, grad, k + 1)

\* 60.0 * count / elapsed_time as numpy prints it; elapsed is in hundredths
\* of a second.
RateStr(count, elapsed) ==
  IF elapsed = 0 THEN (IF count = 0 THEN K_nan ELSE K_inf)
  ELSE FloatStr((IF elapsed < 0 THEN -1 ELSE 1) *
                ((600000 * count) \div Abs(elapsed)), 2)

\* The movements_per_min PIMAP metric made from the temporary sample.
RateFrom(temp_pimap_sample, movements_per_min) ==
  IF ~temp_pimap_sample.ok THEN ValueError
  ELSE create_pimap_metric(
         PyS(K_objective_mobility), temp_pimap_sample.v,
         PyS(DictStr(<<DictEntry(K_movements_per_min, movements_per_min)>>)))

\* The window's float timestamps, in hundredths.
Timestamps(window) ==
  List([i \in 1..Len(window) |-> FloatVal(get_timestamp(window[i]).v)])

\* How many gradients of the window exceed 2.
Movements(window) ==
  Cardinality({i \in 1..Len(window) : MetricValue(window[i], K_xy_gradient) > 200})

\* The rate over the time since the epoch instead of the window's span.
RateOf_SinceEpoch(pid, did, window, timestamps, clock) ==
  RateFrom(create_pimap_sample_at(PyS(K_temp), PyS(pid), PyS(did), PyS(K_temp),
                                  PyF100(SumSeq(timestamps) \div Len(window)), clock),
           RateStr(Movements(window), timestamps[Len(window)]))

RateOf(pid, did, window, timestamps, clock) ==
  RateFrom(create_pimap_sample_at(PyS(K_temp), PyS(pid), PyS(did), PyS(K_temp),
                                  PyF100(SumSeq(timestamps) \div Len(window)), clock),
           RateStr(Movements(window), timestamps[Len(window)] - timestamps[1]))

\* The movements_per_min PIMAP metric of one window, or the ValueError of
\* create_pimap_sample.
RateMetric(pid, did, window, clock) ==
  RateOf(pid, did, window, Timestamps(window), clock)

\* The loop over saved_gradient_pmetrics_by_id with its inner while loop; it
\* stops where create_pimap_sample raises.
RECURSIVE RateLoop(_, _, _)
RECURSIVE RateWindow(_, _, _, _)
RateWindow(grad, k, clock, m) ==
  IF ~m.ok THEN [ok |-> FALSE, grad |-> grad, out |-> <<>>]
  ELSE [RateLoop([grad EXCEPT ![k].items = Tail(@)], k, clock)
          EXCEPT !.out = <<m.v>> \o @]
RateLoop(grad, k, clock) ==
  IF k > Len(grad) THEN [ok |-> TRUE, grad |-> grad, out |-> <<>>]
  ELSE IF Len(grad[k].items) >= movements_per_min_period
    THEN RateWindow(grad, k, clock,
                    RateMetric(grad[k].pid, grad[k].did,
                               SubSeq(grad[k].items, 1, movements_per_min_period),
                               clock))
    ELSE RateLoop(grad, k + 1, clock)

\* str(self.aggregation_limit): the int it starts as, a float once changed.
LimitStr(limit) ==
  IF limit = InitialLimit * LimitUnit THEN IntStr(InitialLimit)
  ELSE FloatStr(limit * (Pow10(7) \div LimitUnit), 7)



\* What a call that raised did.
Raised(exc, at) == [exc |-> exc, at |-> at, flushed |-> FALSE, over |-> FALSE,
                   metrics |-> <<>>, system |-> <<>>]

\* The fields of the analyzer as they are, with what the call did.
AnalyzerState(ret) ==
  [ret |-> ret, now |-> a_now,
   system_samples_updated |-> a_system_samples_updated,
   samples_in |-> samples_in, metrics_out |-> metrics_out,
   aggregation_buffer |-> aggregation_buffer,
   aggregation_limit |-> aggregation_limit,
   last_time_analyzed |-> last_time_analyzed,
   saved_angle_pmetrics_by_id |-> saved_angle_pmetrics_by_id,
   saved_gradient_pmetrics_by_id |-> saved_gradient_pmetrics_by_id]

NotChecked(exc, at) == [exc |-> exc, at |-> at, buffer |-> <<>>]

\* The entries of strs whose type is pressure_bandage, in order.
RECURSIVE Filtered(_, _, _)
Filtered(strs, types, i) ==
  IF i > Len(strs) THEN <<>>
  ELSE (IF types[i].v = K_pressure_bandage THEN <<strs[i]>> ELSE <<>>) \o
       Filtered(strs, types, i + 1)

\* The validation and the filter, for a list of strings whose get_type
\* results are types.
FilterTyped(strs, types) ==
  IF strs # <<>> /\ \A i \in 1..Len(strs) : ~validate_datum(strs[i])
    THEN NotChecked("ValueError", "validate")
  ELSE IF \E i \in 1..Len(strs) : ~types[i].ok
    THEN NotChecked("ValueError", "filter")
  ELSE [exc |-> "none", at |-> "none",
        buffer |-> aggregation_buffer \o Filtered(strs, types, 1)]

FilterStrings(strs) ==
  FilterTyped(strs, List([i \in 1..Len(strs) |-> get_type(strs[i])]))

\* The argument checks and the filter at the head of analyze(): the
\* exception they raise, or the buffer after extend().
CheckAndFilter(arg) ==
  IF arg.t # "list" THEN NotChecked("TypeError", "argument")
  ELSE IF \E i \in 1..Len(arg.s) : arg.s[i].t # "str"
    THEN NotChecked("TypeError", "validate")
  ELSE FilterStrings(List([i \in 1..Len(arg.s) |-> arg.s[i].s]))

FlushRaised(at, angle, grad) ==
  [ok |-> FALSE, at |-> at, metrics |-> <<>>, angle |-> angle, grad |-> grad]

\* The end of the flush body with the three extend() calls in another
\* order.
AfterRate_RatesFirst(angle_pimap_metrics, g, r) ==
  IF ~r.ok THEN FlushRaised("rate", g.angle, r.grad)
  ELSE [ok |-> TRUE, at |-> "none",
        metrics |-> r.out \o angle_pimap_metrics \o g.out,
        angle |-> g.angle, grad |-> r.grad]

\* The end of the flush body: r is what the rate loop left.
AfterRate(angle_pimap_metrics, g, r) ==
  IF ~r.ok THEN FlushRaised("rate", g.angle, r.grad)
  ELSE [ok |-> TRUE, at |-> "none",
        metrics |-> angle_pimap_metrics \o g.out \o r.out,
        angle |-> g.angle, grad |-> r.grad]

\* The rate loop follows the gradient loop, which left g.
AfterGradient(angle_pimap_metrics, g) ==
  AfterRate(angle_pimap_metrics, g, RateLoop(g.grad, 1, PyF100(a_now)))

\* The gradient loop follows the filing of the angle metrics.
AfterAngles(angle_pimap_metrics) ==
  AfterGradient(angle_pimap_metrics,
                GradientLoop(SaveAngles(saved_angle_pmetrics_by_id,
                                        angle_pimap_metrics),
                             saved_gradient_pmetrics_by_id, 1))

\* Nothing is filed when a payload or a sample's fields raised.
FlushAngles(angles) ==
  IF \E i \in 1..Len(angles) : ~angles[i].ok
    THEN FlushRaised("flush", saved_angle_pmetrics_by_id,
                     saved_gradient_pmetrics_by_id)
  ELSE AfterAngles(List([i \in 1..Len(angles) |-> angles[i].v]))

\* The body of the flush, from the parsing of the payloads to the rate
\* loop: the metrics and the two dicts it leaves, or where it raised.
FlushWork(buffer) == FlushAngles(List([i \in 1..Len(buffer) |-> AngleOf(buffer[i])]))

\* str() of the dict of the system sample.
TelemetryDict(sin, mout, elapsed, limit, aggregation) ==
  DictStr(<<DictEntry(K_throughput_in, PerSecond(sin, elapsed)),
            DictEntry(K_throughput_out, PerSecond(mout, elapsed)),
            DictEntry(K_aggregation_limit, LimitStr(limit)),
            DictEntry(K_aggregation, IntStr(aggregation))>>)

\* The report, created being what create_pimap_sample returned.
TelemetryReport(st, t, created) ==
  IF ~created.ok THEN [st EXCEPT !.ret = Raised("ValueError", "telemetry")]
  ELSE [st EXCEPT !.samples_in = 0, !.metrics_out = 0,
                  !.system_samples_updated = t, !.ret.system = <<created.v>>]

\* The block once the two counters are updated.
TelemetryCounted(st, t) ==
  IF t - st.system_samples_updated <= system_samples_update_period THEN st
  ELSE TelemetryReport(
         st, t,
         create_pimap_sample_at(
           PyS(K_system_samples), PyS(K_analyze), PyS(K_objective_mobility),
           PyS(TelemetryDict(st.samples_in, st.metrics_out,
                             t - st.system_samples_updated, st.aggregation_limit,
                             Len(st.aggregation_buffer))),
           PyNone, PyF100(t)))

\* The system_samples block at the end of analyze(), entered with the
\* fields st at time t.
Telemetry(st, t) ==
  IF ~a_system_samples THEN st
  ELSE TelemetryCounted(
         [st EXCEPT !.samples_in = @ + Len(st.aggregation_buffer),
                    !.metrics_out = @ + Len(st.ret.metrics)], t)

\* The flush condition for the extended buffer at time t.
FlushDue(buffer, t) ==
  /\ \/ Len(buffer) * LimitUnit > aggregation_limit
     \/ t - last_time_analyzed > aggregation_period
  /\ Len(buffer) > 0

\* The adjustment made after  self.aggregation_buffer = [].
AdjustedLimit_AfterClear(buffer, dur) ==
  IF dur > analyze_period THEN aggregation_limit \div 2
  ELSE IF 0 >= aggregation_limit THEN aggregation_limit
  ELSE aggregation_limit

\* The adjustment of aggregation_limit after a flush that took dur.
AdjustedLimit(buffer, dur) ==
  IF dur > analyze_period THEN aggregation_limit \div 2
  ELSE IF Len(buffer) * LimitUnit >= aggregation_limit
    THEN aggregation_limit + Len(buffer) * LimitUnit
  ELSE aggregation_limit

\* The fields once the flush has begun: the buffer extended, the time of
\* the flush noted, the dicts as the body left them.
Started(buffer, work, t) ==
  [AnalyzerState(Raised("ValueError", work.at))
     EXCEPT !.now = t, !.aggregation_buffer = buffer, !.last_time_analyzed = t,
            !.saved_angle_pmetrics_by_id = work.angle,
            !.saved_gradient_pmetrics_by_id = work.grad]

\* analyze() without  self.aggregation_buffer = []  at the end of the flush.
AnalyzeOutcome_NoClear(checked, work, t, dur) ==
  IF checked.exc # "none" THEN AnalyzerState(Raised(checked.exc, checked.at))
  ELSE IF ~FlushDue(checked.buffer, t)
    THEN Telemetry([AnalyzerState(NoCall) EXCEPT !.now = t,
                                                 !.aggregation_buffer = checked.buffer],
                   t)
  ELSE IF ~work.ok THEN Started(checked.buffer, work, t)
  ELSE Telemetry(
         [Started(checked.buffer, work, t) EXCEPT
            !.ret = [exc |-> "none", at |-> "none", flushed |-> TRUE,
                     over |-> dur > analyze_period, metrics |-> work.metrics,
                     system |-> <<>>],
            !.now = t + dur,
            !.aggregation_buffer = checked.buffer,
            !.aggregation_limit = AdjustedLimit(checked.buffer, dur)],
         t + dur)

\* analyze(pimap_samples) when every time.time() of the call up to the end
\* of the flush returns t and those after it t + dur; checked and work are
\* CheckAndFilter and FlushWork of the call.
AnalyzeOutcome(checked, work, t, dur) ==
  IF checked.exc # "none" THEN AnalyzerState(Raised(checked.exc, checked.at))
  ELSE IF ~FlushDue(checked.buffer, t)
    THEN Telemetry([AnalyzerState(NoCall) EXCEPT !.now = t,
                                                 !.aggregation_buffer = checked.buffer],
                   t)
  ELSE IF ~work.ok THEN Started(checked.buffer, work, t)
  ELSE Telemetry(
         [Started(checked.buffer, work, t) EXCEPT
            !.ret = [exc |-> "none", at |-> "none", flushed |-> TRUE,
                     over |-> dur > analyze_period, metrics |-> work.metrics,
                     system |-> <<>>],
            !.now = t + dur,
            !.aggregation_buffer = <<>>,
            !.aggregation_limit = AdjustedLimit(checked.buffer, dur)],
         t + dur)


-----------------------------------------------------------------------------
(* The caller of analyze()                                                 *)

\* How many calls the caller makes after the steady over-budget stream.
MaxCalls == 2

\* How many calls the steady over-budget stream has.
MaxSteady == 8

\* The clock advances between two calls by nothing or by SlowAdvance, and a
\* flush takes no time or OverBudget, in hundredths of a second.
SlowAdvance == 60
OverBudget == 6

\* The j-th entry of the list of call number n is stamped 10 * n + j seconds.
StampStep == 10
Stamp(n, j) == PyF(StampStep * n + j)

Bandage(pid, g, ts) ==
  create_pimap_sample_at(PyS(K_pressure_bandage), PyS(pid), PyI(1), PyS(GridStr(g)),
                         ts, ts).v

\* A sample of another type, and a pressure_bandage sample whose payload is
\* not a literal.
OtherSample(ts) ==
  create_pimap_sample_at(PyS(<<"t">>), PyI(1), PyI(1), PyS(<<"s">>), ts, ts).v
BadPayload(ts) ==
  create_pimap_sample_at(PyS(K_pressure_bandage), PyI(1), PyI(1), PyS(<<"s">>),
                         ts, ts).v

\* Five readings of one patient that tilt the bandage back and forth.
Oscillation(pid, up, down, n) ==
  PyList(<<PyS(Bandage(pid, Grid_flat, Stamp(n, 1))),
           PyS(Bandage(pid, up, Stamp(n, 2))),
           PyS(Bandage(pid, Grid_flat, Stamp(n, 3))),
           PyS(Bandage(pid, down, Stamp(n, 4))),
           PyS(Bandage(pid, Grid_flat, Stamp(n, 5)))>>)

\* One reading of each grid of the model, of one patient.
Tour(pid, n) ==
  PyList(<<PyS(Bandage(pid, Grid_flat, Stamp(n, 1))),
           PyS(Bandage(pid, Grid_column, Stamp(n, 2))),
           PyS(Bandage(pid, Grid_reversed, Stamp(n, 3))),
           PyS(Bandage(pid, Grid_row, Stamp(n, 4))),
           PyS(Bandage(pid, Grid_sum, Stamp(n, 5)))>>)

\* The reading of call number n of the steady stream.
SteadyGrid(n) ==
  CASE n % 4 = 1 -> Grid_column
    [] n % 4 = 3 -> Grid_reversed
    [] OTHER -> Grid_flat

\* The arguments the caller passes in call number n.
ArgsWith(one, n) ==
  {PyS(Wire_garbage), PyList(<<>>), PyList(<<PyS(Wire_garbage)>>),
   PyList(<<PyI(5)>>), PyList(<<one, PyS(Wire_garbage)>>),
   PyList(<<PyS(OtherSample(Stamp(n, 1)))>>),
   PyList(<<PyS(BadPayload(Stamp(n, 1)))>>),
   PyList(<<one>>),
   Oscillation(<<"1">>, Grid_column, Grid_reversed, n),
   Tour(<<"2">>, n)}
AnalyzeArgs(n) == ArgsWith(PyS(Bandage(<<"2">>, Grid_flat, Stamp(n, 1))), n)

AnalyzeInit ==
  /\ CodecIdle
  /\ SenseIdle
  /\ StoreIdle /\ ConstructIdle
  /\ analyzer = "on" /\ a_now = 0
  /\ a_system_samples \in BOOLEAN
  /\ a_system_samples_updated = 0
  /\ samples_in = 0 /\ metrics_out = 0
  /\ aggregation_buffer = <<>>
  /\ aggregation_limit = InitialLimit * LimitUnit
  /\ last_time_analyzed = 0
  /\ saved_angle_pmetrics_by_id = <<>>
  /\ saved_gradient_pmetrics_by_id = <<>>
  /\ a_arg = PyNone /\ a_ret = NoCall /\ a_passed = {}
  /\ a_calls = 0 /\ a_steady = 0

\* One call of analyze(arg) that ends in the outcome o.
Analyze(arg, o) ==
  /\ a_arg' = arg
  /\ a_ret' = o.ret
  /\ a_passed' = a_passed \cup
                   (IF arg.t = "list" THEN {arg.s[i] : i \in 1..Len(arg.s)} ELSE {})
  /\ a_now' = o.now
  /\ a_system_samples_updated' = o.system_samples_updated
  /\ samples_in' = o.samples_in
  /\ metrics_out' = o.metrics_out
  /\ aggregation_buffer' = o.aggregation_buffer
  /\ aggregation_limit' = o.aggregation_limit
  /\ last_time_analyzed' = o.last_time_analyzed
  /\ saved_angle_pmetrics_by_id' = o.saved_angle_pmetrics_by_id
  /\ saved_gradient_pmetrics_by_id' = o.saved_gradient_pmetrics_by_id
  /\ a_calls' = a_calls + 1
  /\ UNCHANGED <<analyzer, a_system_samples>>

\* The call once its checks and its flush body are known: the clock is not
\* read by a call that raises at its head, and a duration is that of a
\* flush.
AnalyzeAt(arg, checked, work, advance, dur, o) ==
  /\ checked.exc # "none" => advance = 0
  /\ dur # 0 => o.ret.flushed /\ aggregation_limit % 2 = 0
  /\ Analyze(arg, o)

AnalyzeWork(arg, checked, work) ==
  \E advance \in {0, SlowAdvance}, dur \in {0, OverBudget} :
    AnalyzeAt(arg, checked, work, advance, dur,
              AnalyzeOutcome(checked, work, a_now + advance, dur))

AnalyzeChecked(arg, checked) == AnalyzeWork(arg, checked, FlushWork(checked.buffer))

SteadyChecked(arg, checked) ==
  Analyze(arg, AnalyzeOutcome(checked, FlushWork(checked.buffer),
                              a_now + SlowAdvance, OverBudget))

SteadyArg(n) == PyList(<<PyS(Bandage(<<"1">>, SteadyGrid(n), Stamp(n, 1)))>>)

\* The steady stream: one reading per call, each flush over budget.
AnalyzeSteady ==
  /\ analyzer = "on"
  /\ a_calls = a_steady
  /\ a_steady < MaxSteady
  /\ aggregation_limit % 2 = 0
  /\ SteadyChecked(SteadyArg(a_calls), CheckAndFilter(SteadyArg(a_calls)))
  /\ a_steady' = a_steady + 1
  /\ UNCHANGED <<codecVars, senseVars, storeVars, constructVars>>

\* A call of the caller's choice.
AnalyzeCall ==
  /\ analyzer = "on"
  /\ a_calls < MaxCalls \/ a_calls = a_steady
  /\ \E arg \in AnalyzeArgs(a_calls) : AnalyzeChecked(arg, CheckAndFilter(arg))
  /\ UNCHANGED a_steady
  /\ UNCHANGED <<codecVars, senseVars, storeVars, constructVars>>

AnalyzeNext == AnalyzeSteady \/ AnalyzeCall

SpecAnalyze == AnalyzeInit /\ [][AnalyzeNext]_vars

-----------------------------------------------------------------------------
(* pimapstorekafka.py: the broker and the producer                         *)

\* self.system_samples_period of the store, in hundredths of a second.
k_system_samples_period == 100

\* self.num_messages after construction, and the most retrieve() asks for.
InitialMessages == 100
MaxMessages == 1000000

\* Messages the producer queues before produce() raises BufferError.
QueueCap == 2

K_store_store == <<"s", "t", "o", "r", "e", "_", "s", "t", "o", "r", "e">>
K_store_retrieve == <<"s", "t", "o", "r", "e", "_", "r", "e", "t", "r", "i", "e", "v", "e">>
K_queue_length == <<"q", "u", "e", "u", "e", "_", "l", "e", "n", "g", "t", "h">>
K_num_messages == <<"n", "u", "m", "_", "m", "e", "s", "s", "a", "g", "e", "s">>
K_messages == <<"m", "e", "s", "s", "a", "g", "e", "s">>
K_timeout == <<"t", "i", "m", "e", "o", "u", "t">>
K_set == <<"s", "e", "t", "(", ")">>
K_dict_keys == <<"d", "i", "c", "t", "_", "k", "e", "y", "s", "(", "[">>
K_timeout_value == <<"0", ".", "1">>

\* str() of a list of strings, without the brackets.
ReprItems(items) == JoinEntries(List([i \in 1..Len(items) |-> Quoted(items[i])]))

\* str(self.stored_topics), the set taken in insertion order, and
\* str(self.consumer_dict.keys()).
SetStr(topics) ==
  IF topics = <<>> THEN K_set ELSE <<"{">> \o ReprItems(topics) \o <<"}">>
KeysStr(topics) ==
  K_dict_keys \o (IF topics = <<>> THEN <<>> ELSE ReprItems(topics)) \o <<"]", ")">>

\* set.add
SetAdd(topics, topic) ==
  IF \E i \in 1..Len(topics) : topics[i] = topic THEN topics
  ELSE Append(topics, topic)

Min(a, b) == IF a <= b THEN a ELSE b

\* The place of a topic at the broker and of its consumer in consumer_dict,
\* 0 when there is none.
TopicIndex(seq, topic) ==
  IF \A k \in 1..Len(seq) : seq[k].topic # topic THEN 0
  ELSE CHOOSE k \in 1..Len(seq) : seq[k].topic = topic

\* The broker appends a message to the log of its topic, which it creates
\* when it does not exist.
AppendAt(b, k, m) ==
  IF k = 0
    THEN Append(b, [topic |-> m.topic,
                    log |-> <<[key |-> m.key, value |-> m.value, count |-> 1]>>])
    ELSE [b EXCEPT ![k].log = Append(@, [key |-> m.key, value |-> m.value,
                                         count |-> 1])]
Delivered(b, m) == AppendAt(b, TopicIndex(b, m.topic), m)

\* producer.flush(): the queued messages reach the broker in order.
RECURSIVE DeliveredAll(_, _)
DeliveredAll(b, queue) ==
  IF queue = <<>> THEN b ELSE DeliveredAll(Delivered(b, Head(queue)), Tail(queue))

\* The log of a topic, and how many messages a log or a list of runs holds.
LogAt(b, k) == IF k = 0 THEN <<>> ELSE b[k].log
TopicLog(b, topic) == LogAt(b, TopicIndex(b, topic))
RECURSIVE LogLen(_)
LogLen(log) == IF log = <<>> THEN 0 ELSE Head(log).count + LogLen(Tail(log))

\* The n messages of a log after the first skip of them.
RECURSIVE TakeRuns(_, _, _)
TakeRuns(log, skip, n) ==
  IF n = 0 \/ log = <<>> THEN <<>>
  ELSE IF skip >= Head(log).count
    THEN TakeRuns(Tail(log), skip - Head(log).count, n)
  ELSE <<[Head(log) EXCEPT !.count = Min(@ - skip, n)]>> \o
       TakeRuns(Tail(log), 0, n - Min(Head(log).count - skip, n))

-----------------------------------------------------------------------------
(* pimapstorekafka.py: store() and retrieve()                              *)

\* The fields of the store as they are, with what the call did.
StoreState(ret) ==
  [ret |-> ret, now |-> k_now,
   stored_system_samples_updated |-> stored_system_samples_updated,
   retrieved_system_samples_updated |-> retrieved_system_samples_updated,
   consumer_dict |-> consumer_dict, num_messages |-> num_messages,
   retrieved_data |-> retrieved_data, stored_data |-> stored_data,
   stored_topics |-> stored_topics, producer |-> producer, broker |-> broker,
   sent |-> k_sent]

StoreRet(op, exc) == [NoStoreCall EXCEPT !.op = op, !.exc = exc,
                                         !.before = num_messages]

\* How often produce() and flush() were called for one datum.
Tried(produce, flush) == [produce |-> produce, flush |-> flush]

\* The loop body with a flush before every produce().
Produced_FlushEach(st, m) ==
  [st EXCEPT !.broker = DeliveredAll(@, st.producer),
             !.producer = <<m>>,
             !.sent = Append(@, m), !.ret.produced = @ + 1,
             !.ret.tries = Append(@, Tried(1, 1))]

\* self.producer.produce(topic, value, key), with the flush and the second
\* produce() when the queue is full.
Produced(st, m) ==
  IF Len(st.producer) >= QueueCap
    THEN [st EXCEPT !.broker = DeliveredAll(@, st.producer),
                    !.producer = <<m>>,
                    !.sent = Append(@, m), !.ret.produced = @ + 1,
                    !.ret.tries = Append(@, Tried(2, 1))]
    ELSE [st EXCEPT !.producer = Append(@, m),
                    !.sent = Append(@, m), !.ret.produced = @ + 1,
                    !.ret.tries = Append(@, Tried(1, 0))]

\* The loop of store() over pimap_data from its i-th entry on.
RECURSIVE PublishLoop(_, _, _)
RECURSIVE PublishTopic(_, _, _, _)
RECURSIVE PublishKey(_, _, _, _, _)
\* The loop passing over an entry without a type or a patient_id.
PublishLoop_SkipsBad(data, i, st) ==
  IF i > Len(data) THEN st
  ELSE IF ~get_type(data[i]).ok \/ ~get_patient_id(data[i]).ok
    THEN PublishLoop(data, i + 1, st)
  ELSE PublishTopic(data, i, st, get_type(data[i]))
PublishLoop(data, i, st) ==
  IF i > Len(data) THEN st ELSE PublishTopic(data, i, st, get_type(data[i]))
PublishTopic(data, i, st, topic) ==
  IF ~topic.ok THEN [st EXCEPT !.ret.exc = "ValueError"]
  ELSE PublishKey(data, i, [st EXCEPT !.stored_topics = SetAdd(@, topic.v)],
                  topic.v, get_patient_id(data[i]))
PublishKey(data, i, st, topic, key) ==
  IF ~key.ok THEN [st EXCEPT !.ret.exc = "ValueError"]
  ELSE PublishLoop(data, i + 1,
                   Produced(st, [topic |-> topic, key |-> key.v,
                                 value |-> data[i]]))

\* str() of the dict of the system sample of store().
StoredDict(n, elapsed, queue_length) ==
  DictStr(<<DictEntry(K_throughput, PerSecond(n, elapsed)),
            DictEntry(K_queue_length, IntStr(queue_length))>>)

StoredReport(st, t, created) ==
  IF ~created.ok THEN [st EXCEPT !.ret.exc = "ValueError"]
  ELSE [st EXCEPT !.stored_data = 0, !.stored_system_samples_updated = t,
                  !.ret.system = <<created.v>>]

StoredCounted(st, t) ==
  IF t - st.stored_system_samples_updated <= k_system_samples_period THEN st
  ELSE StoredReport(
         st, t,
         create_pimap_sample_at(
           PyS(K_system_samples), PyS(K_store_store),
           PyS(SetStr(st.stored_topics)),
           PyS(StoredDict(st.stored_data, t - st.stored_system_samples_updated,
                          Len(st.producer))),
           PyNone, PyF100(t)))

\* The system_samples block of store(), n data having been stored.
StoredTelemetry(st, n, t) ==
  IF ~k_system_samples THEN st
  ELSE StoredCounted([st EXCEPT !.stored_data = @ + n, !.now = t], t)

StorePublished(published, n, t) ==
  IF published.ret.exc # "none" THEN published
  ELSE StoredTelemetry(published, n, t)

StoreStrings(strs, t) ==
  IF strs # <<>> /\ \A i \in 1..Len(strs) : ~validate_datum(strs[i])
    THEN StoreState(StoreRet("store", "ValueError"))
  ELSE StorePublished(PublishLoop(strs, 1, StoreState(StoreRet("store", "none"))),
                      Len(strs), t)

\* store(pimap_data) when every time.time() of the call returns t.
StoreOutcome(pimap_data, t) ==
  IF pimap_data.t # "list" THEN StoreState(StoreRet("store", "TypeError"))
  ELSE IF \E i \in 1..Len(pimap_data.s) : pimap_data.s[i].t # "str"
    THEN StoreState(StoreRet("store", "TypeError"))
  ELSE StoreStrings(List([i \in 1..Len(pimap_data.s) |-> pimap_data.s[i].s]), t)

\* The adjustment without its clamp.
Adjusted_Unclamped(asked, messages) ==
  IF messages = 0 THEN asked \div 2
  ELSE IF messages >= asked THEN asked * 2
  ELSE asked

\* The adjustment of num_messages to a poll of so many messages.
Clamped(n) == IF n < 1 THEN 1 ELSE IF n > MaxMessages THEN MaxMessages ELSE n
Adjusted(asked, messages) ==
  Clamped(IF messages = 0 THEN asked \div 2
          ELSE IF messages >= asked THEN asked * 2
          ELSE asked)

\* The consumers with the one of a topic, which starts at the earliest
\* message.
Subscribed(consumers, topic) ==
  IF TopicIndex(consumers, topic) # 0 THEN consumers
  ELSE Append(consumers, [topic |-> topic, offset |-> 0, st |-> "subscribed"])

Topics(consumers) == List([i \in 1..Len(consumers) |-> consumers[i].topic])

\* str() of the dict of the system sample of retrieve().
RetrievedDict(n, elapsed, asked, messages) ==
  DictStr(<<DictEntry(K_throughput, PerSecond(n, elapsed)),
            DictEntry(K_num_messages, IntStr(asked)),
            DictEntry(K_messages, IntStr(messages)),
            DictEntry(K_timeout, K_timeout_value)>>)

RetrievedReport(st, t, created) ==
  IF ~created.ok THEN [st EXCEPT !.ret.exc = "ValueError"]
  ELSE [st EXCEPT !.retrieved_data = 0, !.retrieved_system_samples_updated = t,
                  !.ret.system = <<created.v>>]

RetrievedCounted(st, t) ==
  IF t - st.retrieved_system_samples_updated <= k_system_samples_period THEN st
  ELSE RetrievedReport(
         st, t,
         create_pimap_sample_at(
           PyS(K_system_samples), PyS(K_store_retrieve),
           PyS(KeysStr(Topics(st.consumer_dict))),
           PyS(RetrievedDict(st.retrieved_data,
                             t - st.retrieved_system_samples_updated,
                             st.num_messages, st.ret.polled)),
           PyNone, PyF100(t)))

\* The system_samples block of retrieve().
RetrievedTelemetry(st, t) ==
  IF ~k_system_samples THEN st
  ELSE RetrievedCounted([st EXCEPT !.retrieved_data = @ + LogLen(st.ret.data),
                                   !.now = t], t)

\* The patient_id of a message is the one asked for.
OfPatient(run, patient_id) ==
  patient_id.t = "str" /\ get_patient_id(run.value).v = patient_id.s

\* retrieve() without the filter by patient_id.
RetrieveFiltered_Unfiltered(st, patient_id, t) == RetrievedTelemetry(st, t)

\* The filter by patient_id and what follows it.
RetrieveFiltered(st, patient_id, t) ==
  IF patient_id = PyNone THEN RetrievedTelemetry(st, t)
  ELSE IF \E i \in 1..Len(st.ret.data) : ~get_patient_id(st.ret.data[i].value).ok
    THEN [st EXCEPT !.ret.exc = "ValueError", !.ret.data = <<>>]
  ELSE RetrievedTelemetry(
         [st EXCEPT !.ret.data = SelectSeq(@, LAMBDA run : OfPatient(run, patient_id))],
         t)

\* consume() returned n messages with a value and so many with an error.
RetrieveConsumed(topic, patient_id, t, consumers, k, n, errors) ==
  RetrieveFiltered(
    [StoreState(StoreRet("retrieve", "none")) EXCEPT
       !.consumer_dict = [consumers EXCEPT ![k].offset = @ + n],
       !.num_messages = Adjusted(num_messages, n + errors),
       !.ret.polled = n + errors,
       !.ret.data = TakeRuns(TopicLog(broker, topic), consumers[k].offset, n)],
    patient_id, t)

\* consume() returns the messages there are, no more than it was asked for,
\* or nothing when the timeout comes first.
RetrievePolled(topic, patient_id, t, consumers, k, full, errors) ==
  RetrieveConsumed(
    topic, patient_id, t, consumers, k,
    IF full THEN Min(num_messages - errors,
                     LogLen(TopicLog(broker, topic)) - consumers[k].offset)
    ELSE 0,
    errors)

RetrieveSubscribed(topic, patient_id, t, consumers, full, errors) ==
  RetrievePolled(topic, patient_id, t, consumers, TopicIndex(consumers, topic),
                 full, errors)

\* retrieve(sample_or_metric_type, patient_id) when every time.time() of the
\* call returns t.
RetrieveOutcome(sample_or_metric_type, patient_id, t, full, errors) ==
  RetrieveSubscribed(PyStr(sample_or_metric_type), patient_id, t,
                     Subscribed(consumer_dict, PyStr(sample_or_metric_type)),
                     full, errors)

-----------------------------------------------------------------------------
(* The caller of store() and retrieve()                                    *)

\* How many calls the caller makes besides a run of equal calls, and how
\* long such a run is.
MaxStoreCalls == 3
MaxChain == 16

\* Messages another producer left in the topic  bulk.
Backlog == 3000000

K_bulk == <<"b", "u", "l", "k">>
K_quiet == <<"q", "u", "i", "e", "t">>

\* The data of the caller: a sample, a metric of it, a metric whose payload
\* names a sample type, a sample of another patient, and a message of the
\* topic  bulk.
Datum_s == create_pimap_sample_at(PyS(<<"s">>), PyI(1), PyI(1), PyS(<<"x">>),
                                  PyF(1), PyF(1)).v
Datum_m == create_pimap_metric(PyS(<<"m">>), Datum_s, PyS(<<"y">>)).v
Datum_z == create_pimap_metric(PyS(<<"m">>), Datum_s,
                               PyS(K_sample \o <<"_">> \o K_type \o <<":", "z">>)).v
Datum_s2 == create_pimap_sample_at(PyS(<<"s">>), PyI(2), PyI(1), PyS(<<"x">>),
                                   PyF(2), PyF(2)).v
Datum_bulk == create_pimap_sample_at(PyS(K_bulk), PyI(9), PyI(1), PyS(<<"x">>),
                                     PyF(1), PyF(1)).v

\* The type each datum was created with.
CreatedType(d) ==
  CASE d \in {Datum_s, Datum_s2} -> <<"s">>
    [] d \in {Datum_m, Datum_z} -> <<"m">>
    [] OTHER -> K_bulk

StoreArgs ==
  {PyS(Datum_s), PyList(<<>>), PyList(<<PyS(Wire_garbage)>>),
   PyList(<<PyI(5)>>), PyList(<<PyS(Datum_s), PyS(Wire_garbage)>>),
   PyList(<<PyS(Datum_s), PyS(Datum_m)>>),
   PyList(<<PyS(Datum_s), PyS(Datum_s2), PyS(Datum_m)>>),
   PyList(<<PyS(Datum_z)>>)}

RetrieveTopics == {PyS(<<"s">>), PyS(<<"m">>), PyS(<<"z">>), PyS(K_bulk)}

StoreInit ==
  /\ CodecIdle
  /\ SenseIdle
  /\ AnalyzeIdle /\ ConstructIdle
  /\ kafka = "on" /\ k_now = 0
  /\ k_system_samples \in BOOLEAN
  /\ stored_system_samples_updated = 0
  /\ retrieved_system_samples_updated = 0
  /\ consumer_dict = <<>>
  /\ num_messages = InitialMessages
  /\ retrieved_data = 0 /\ stored_data = 0 /\ stored_topics = <<>>
  /\ producer = <<>>
  /\ broker = <<[topic |-> K_bulk,
                 log |-> <<[key |-> <<"9">>, value |-> Datum_bulk,
                            count |-> Backlog]>>]>>
  /\ k_arg = PyNone /\ k_ret = NoStoreCall /\ k_sent = <<>>
  /\ k_calls = 0 /\ k_chain = [n |-> 0, kind |-> "none"]

\* One call that ends in the outcome o.
StoreCalled(arg, o) ==
  /\ k_arg' = arg
  /\ k_ret' = o.ret
  /\ k_now' = o.now
  /\ stored_system_samples_updated' = o.stored_system_samples_updated
  /\ retrieved_system_samples_updated' = o.retrieved_system_samples_updated
  /\ consumer_dict' = o.consumer_dict
  /\ num_messages' = o.num_messages
  /\ retrieved_data' = o.retrieved_data
  /\ stored_data' = o.stored_data
  /\ stored_topics' = o.stored_topics
  /\ producer' = o.producer
  /\ broker' = o.broker
  /\ k_sent' = o.sent
  /\ k_calls' = k_calls + 1
  /\ UNCHANGED <<kafka, k_system_samples>>
  /\ UNCHANGED <<codecVars, senseVars, analyzeVars, constructVars>>

\* The clock is read by a call that reports.
Advances == IF k_system_samples THEN {0, SlowAdvance} ELSE {0}
ChainAdvance == IF k_system_samples THEN SlowAdvance ELSE 0

FreeCall == k_calls < MaxStoreCalls \/ k_calls = k_chain.n

InChain(kind) ==
  /\ k_calls = k_chain.n
  /\ k_chain.n < MaxChain
  /\ k_chain.kind \in {"none", kind}
  /\ k_chain' = [n |-> k_chain.n + 1, kind |-> kind]

\* A store() of the caller's choice.
StoreCall ==
  /\ kafka = "on"
  /\ FreeCall
  /\ \E arg \in StoreArgs, advance \in Advances :
       StoreCalled(arg, StoreOutcome(arg, k_now + advance))
  /\ UNCHANGED k_chain

\* A retrieve() of the caller's choice.
RetrieveCall ==
  /\ kafka = "on"
  /\ FreeCall
  /\ \E topic \in RetrieveTopics, patient_id \in {PyNone, PyS(<<"1">>)},
        advance \in Advances, full \in BOOLEAN, errors \in {0, 1} :
       StoreCalled([topic |-> topic, patient_id |-> patient_id],
                   RetrieveOutcome(topic, patient_id, k_now + advance, full, errors))
  /\ UNCHANGED k_chain

\* A caller that stores nothing, call after call.
StoreNothing ==
  /\ kafka = "on"
  /\ InChain("idle")
  /\ StoreCalled(PyList(<<>>), StoreOutcome(PyList(<<>>), k_now + ChainAdvance))

\* A caller that drains the topic  bulk: every poll returns what it asked
\* for as long as the topic holds that many messages.
RetrieveSaturated ==
  /\ kafka = "on"
  /\ InChain("saturated")
  /\ StoreCalled([topic |-> PyS(K_bulk), patient_id |-> PyNone],
                 RetrieveOutcome(PyS(K_bulk), PyNone, k_now + ChainAdvance, TRUE, 0))

\* A caller that polls a topic nobody writes to.
RetrieveStarved ==
  /\ kafka = "on"
  /\ InChain("starved")
  /\ StoreCalled([topic |-> PyS(K_quiet), patient_id |-> PyNone],
                 RetrieveOutcome(PyS(K_quiet), PyNone, k_now + ChainAdvance, TRUE, 0))

\* The producer's thread sends the oldest queued message to the broker.
Deliver ==
  /\ kafka = "on"
  /\ producer # <<>>
  /\ broker' = Delivered(broker, Head(producer))
  /\ producer' = Tail(producer)
  /\ UNCHANGED <<kafka, k_now, k_system_samples, stored_system_samples_updated,
                 retrieved_system_samples_updated, consumer_dict, num_messages,
                 retrieved_data, stored_data, stored_topics, k_arg, k_ret,
                 k_sent, k_calls, k_chain>>
  /\ UNCHANGED <<codecVars, senseVars, analyzeVars, constructVars>>

\* consumer.unsubscribe() and consumer.close()
Unsubscribed(consumer) == [consumer EXCEPT !.st = "unsubscribed"]
Closed(consumer) == [consumer EXCEPT !.st = "closed"]

\* The loop of close() with an early return after the first consumer.
CloseAll_First(consumers) ==
  [k \in 1..Len(consumers) |->
     IF k = 1 THEN Closed(Unsubscribed(consumers[k])) ELSE consumers[k]]

\* The loop of close() over self.consumer_dict.values().
CloseAll(consumers) ==
  [k \in 1..Len(consumers) |-> Closed(Unsubscribed(consumers[k]))]

\* close(), after which the caller has done with the adapter.
StoreClose ==
  /\ kafka = "on"
  /\ kafka' = "closed"
  /\ consumer_dict' = CloseAll(consumer_dict)
  /\ k_arg' = PyNone
  /\ k_ret' = StoreRet("close", "none")
  /\ UNCHANGED <<k_now, k_system_samples, stored_system_samples_updated,
                 retrieved_system_samples_updated, num_messages,
                 retrieved_data, stored_data, stored_topics, producer, broker,
                 k_sent, k_calls, k_chain>>
  /\ UNCHANGED <<codecVars, senseVars, analyzeVars, constructVars>>

StoreNext ==
  \/ StoreCall \/ RetrieveCall \/ StoreNothing \/ RetrieveSaturated
  \/ RetrieveStarved \/ Deliver

SpecStore == StoreInit /\ [][StoreNext]_vars

\* A caller that stores and retrieves and then closes the adapter.
SubscribeNext == StoreCall \/ RetrieveCall \/ Deliver \/ StoreClose

SpecSubscribe == StoreInit /\ [][SubscribeNext]_vars

-----------------------------------------------------------------------------
(* Properties of the metrics                                               *)

\* The codec harness and the analyzer, whichever was started.
MetricNext == CodecNext \/ AnalyzeNext

SpecMetric == (CodecInit \/ AnalyzeInit) /\ [][MetricNext]_vars

\* The identity and timestamp a datum carries.
Identity(d) ==
  [pid |-> get_patient_id(d), did |-> get_device_id(d), ts |-> get_timestamp(d)]

IsRate(m) == DictGet(get_metric(m).v, K_movements_per_min).ok

\* The metrics of a call carry identities of the samples passed.
C11_Kept(passed, metrics) ==
  \A i \in 1..Len(metrics) :
    IF metrics[i].rate
      THEN /\ \E p \in passed : /\ p.pid = metrics[i].id.pid
                                /\ p.did = metrics[i].id.did
           /\ KeyIndex(saved_gradient_pmetrics_by_id, metrics[i].id.pid.v,
                       metrics[i].id.did.v) # 0
      ELSE metrics[i].id \in passed

\* C11: a metric that create_pimap_metric derives from a datum has the
\* patient_id, device_id and timestamp of that datum; every angle and
\* gradient metric analyze() returns has the patient_id, device_id and
\* timestamp of a sample that was passed to analyze(), and every rate metric
\* the patient_id and device_id of passed samples and of the identity whose
\* saved gradients made its window.
C11_MetricsKeepIdentity ==
  /\ (cres.kind = "metric" /\ cres.ok) => Identity(cres.v) = Identity(csrc)
  /\ C11_Kept({Identity(e.s) : e \in {x \in a_passed : x.t = "str"}},
              List([i \in 1..Len(a_ret.metrics) |->
                      [id |-> Identity(a_ret.metrics[i]),
                       rate |-> IsRate(a_ret.metrics[i])]]))

\* A flush returned angle, gradient and rate metrics of samples of two
\* patients passed over two calls.
C11_Witness ==
  /\ a_ret.flushed
  /\ \E i \in 1..Len(a_ret.metrics) : IsRate(a_ret.metrics[i])
  /\ \E i \in 1..Len(a_ret.metrics) : ~IsRate(a_ret.metrics[i])
  /\ Len(saved_gradient_pmetrics_by_id) = 2


-----------------------------------------------------------------------------
(* Properties of the bulk inputs                                           *)

\* The analyzer and the store, each with its caller.
BulkNext == AnalyzeNext \/ StoreNext
SpecBulk == (AnalyzeInit \/ StoreInit) /\ [][BulkNext]_vars

\* An entry of the list validates.
Validates(x) == x.t = "str" /\ validate_datum(x.s)

NoneValidates(arg) ==
  /\ arg.t = "list"
  /\ arg.s # <<>>
  /\ \A i \in 1..Len(arg.s) : ~Validates(arg.s[i])

\* What a call given arg is to raise.
ContractOf(arg, exc) ==
  /\ arg.t # "list" => exc = "TypeError"
  /\ NoneValidates(arg) => exc = "ValueError"
  /\ arg = PyList(<<>>) => exc = "none"

\* The fields of the analyzer and of the store with its broker.
analyzerFields ==
  <<a_system_samples_updated, samples_in, metrics_out, aggregation_buffer,
    aggregation_limit, last_time_analyzed, saved_angle_pmetrics_by_id,
    saved_gradient_pmetrics_by_id>>
storeFields ==
  <<stored_system_samples_updated, retrieved_system_samples_updated,
    consumer_dict, num_messages, retrieved_data, stored_data, stored_topics,
    producer, broker, k_sent>>

\* C12: analyze(x) and store(x) raise TypeError when x is not a list,
\* ValueError when x is a non-empty list none of whose entries validates, and
\* nothing for the empty list; a call that raised left the fields of the
\* component as they were: nothing buffered, published or counted.
C12_BulkInputContract ==
  /\ [](a_calls > 0 => ContractOf(a_arg, a_ret.exc))
  /\ []((k_calls > 0 /\ k_ret.op = "store") => ContractOf(k_arg, k_ret.exc))
  /\ [][(a_calls' # a_calls /\ a_ret'.exc # "none")
          => UNCHANGED analyzerFields]_vars
  /\ [][(k_calls' # k_calls /\ k_ret'.op = "store" /\ k_ret'.exc # "none")
          => UNCHANGED storeFields]_vars


-----------------------------------------------------------------------------
(* Properties of the flush                                                 *)

\* What time.time() returned to the call just made, up to the end of its
\* flush: a call that began a flush noted it as the time of the flush.
CallTime ==
  IF a_ret'.flushed \/ a_ret'.at \in {"flush", "rate"}
    THEN last_time_analyzed' ELSE a_now'

\* The call just made, the buffer being  buffer  after the filtered input
\* was appended at time t, flushed when it had to and only then.
FlushRule(buffer, t) ==
  /\ a_ret'.flushed <=> FlushDue(buffer, t)
  /\ a_ret'.flushed =>
       /\ aggregation_buffer' = <<>>
       /\ Len(a_ret'.metrics) >= Len(buffer)
  /\ ~a_ret'.flushed =>
       /\ a_ret'.metrics = <<>>
       /\ aggregation_buffer' = buffer
       /\ UNCHANGED <<aggregation_limit, last_time_analyzed,
                      saved_angle_pmetrics_by_id, saved_gradient_pmetrics_by_id>>

\* C13: a call of analyze() whose argument passes the checks emits metrics
\* and clears the buffer if and only if, the filtered input appended, the
\* buffer is not empty and is longer than the threshold or older than the
\* aggregation period; a call that does not flush returns no metrics, keeps
\* the buffer, and leaves the threshold, the time of the last flush and the
\* saved metrics of every identity as they were.
C13_FlushCondition ==
  [][(a_calls' # a_calls /\ CheckAndFilter(a_arg').exc = "none")
       => FlushRule(CheckAndFilter(a_arg').buffer, CallTime)]_vars


\* C14: the threshold never falls below one sample; a flush that exceeds
\* the analyze period leaves it strictly lower, and a flush within the period
\* of a buffer at or above the threshold leaves it strictly higher.
C14_ThresholdMonotone ==
  /\ [](analyzer = "on" => aggregation_limit >= LimitUnit)
  /\ [][(a_calls' # a_calls /\ a_ret'.flushed /\ a_ret'.over)
          => aggregation_limit' < aggregation_limit]_vars
  /\ [][(a_calls' # a_calls /\ a_ret'.flushed /\ ~a_ret'.over
           /\ Len(CheckAndFilter(a_arg').buffer) * LimitUnit >= aggregation_limit)
          => aggregation_limit' > aggregation_limit]_vars


-----------------------------------------------------------------------------
(* Properties of the telemetry                                             *)

\* A UDP listener, an analyzer and a store, each with its caller.
TelemetryNext ==
  \/ transport = "udp" /\ UdpNext
  \/ AnalyzeNext
  \/ StoreNext
SpecTelemetry == (UdpInit \/ AnalyzeInit \/ StoreInit) /\ [][TelemetryNext]_vars

\* The value a system sample reports under a key of its dict.
Reported(system_sample, key) == DictGet(get_sample(system_sample).v, key).v

ZeroRate == <<"0", ".", "0">>

\* The result of the sense() call just made.
SenseResult == results'[Len(results')]

\* sense() with no datagram ever sent to the listener.
IdleSense ==
  /\ [](\A r \in 1..Len(results) :
          /\ Len(results[r].system) <= 1
          /\ ~system_samples => results[r].system = <<>>)
  /\ [][(Len(results') > Len(results) /\ sentLog = <<>> /\ system_samples
           /\ now' - system_samples_updated > system_samples_period)
          => /\ SenseResult.ok
             /\ Len(SenseResult.system) = 1
             /\ Reported(SenseResult.system[1], K_throughput) = ZeroRate]_vars
  /\ [][(Len(results') > Len(results) /\ SenseResult.system # <<>>)
          => now' - system_samples_updated > system_samples_period]_vars

\* analyze([]) with no sample ever passed to the analyzer.
IdleAnalyze ==
  /\ [](Len(a_ret.system) <= 1 /\ (~a_system_samples => a_ret.system = <<>>))
  /\ [][(a_calls' # a_calls /\ a_arg' = PyList(<<>>) /\ a_passed = {}
           /\ a_system_samples
           /\ a_now' - a_system_samples_updated > system_samples_update_period)
          => /\ Len(a_ret'.system) = 1
             /\ Reported(a_ret'.system[1], K_throughput_in) = ZeroRate
             /\ Reported(a_ret'.system[1], K_throughput_out) = ZeroRate]_vars
  /\ [][(a_calls' # a_calls /\ a_ret'.system # <<>>)
          => a_now' - a_system_samples_updated
               > system_samples_update_period]_vars

\* store([]) with no datum ever stored.
IdleStore ==
  /\ [](Len(k_ret.system) <= 1 /\ (~k_system_samples => k_ret.system = <<>>))
  /\ [][(k_calls' # k_calls /\ k_ret'.op = "store" /\ k_arg' = PyList(<<>>)
           /\ k_sent = <<>> /\ k_system_samples
           /\ k_now' - stored_system_samples_updated > k_system_samples_period)
          => /\ Len(k_ret'.system) = 1
             /\ Reported(k_ret'.system[1], K_throughput) = ZeroRate]_vars
  /\ [][(k_calls' # k_calls /\ k_ret'.op = "store" /\ k_ret'.system # <<>>)
          => k_now' - stored_system_samples_updated
               > k_system_samples_period]_vars

\* C15: with telemetry enabled and no data ever supplied, a call of sense(),
\* analyze([]) or store([]) made more than a telemetry period after the last
\* system sample (or the construction) returns one system sample, which
\* reports throughput 0.0; a call returns at most one system sample, and
\* only when more than a period has passed since the last one; with
\* telemetry disabled no call returns a system sample.
C15_IdleTelemetry == IdleSense /\ IdleAnalyze /\ IdleStore


-----------------------------------------------------------------------------
(* Properties of the store                                                 *)

\* A step that is a call of retrieve().
Retrieves == k_calls' # k_calls /\ k_ret'.op = "retrieve"

\* C16: num_messages starts at 100 and stays within 1..1000000; a retrieve()
\* whose poll returned no message halves it, rounding down, to no less than
\* 1; one whose poll returned at least num_messages messages doubles it, to
\* no more than 1000000; any other call, and any other step, leaves it as it
\* is.
C16_BatchController ==
  /\ [](kafka = "on" =>
          /\ num_messages \in 1..MaxMessages
          /\ consumer_dict = <<>> => num_messages = InitialMessages)
  /\ [][IF Retrieves
          THEN num_messages' =
                 IF k_ret'.polled = 0
                   THEN (IF num_messages \div 2 < 1 THEN 1
                         ELSE num_messages \div 2)
                 ELSE IF k_ret'.polled >= num_messages
                   THEN (IF 2 * num_messages > MaxMessages THEN MaxMessages
                         ELSE 2 * num_messages)
                 ELSE num_messages
          ELSE num_messages' = num_messages]_vars

\* A saturated poll has just taken num_messages to its maximum.
C16_Witness ==
  /\ k_ret.op = "retrieve"
  /\ k_ret.polled >= k_ret.before
  /\ k_ret.before < MaxMessages
  /\ 2 * k_ret.before > MaxMessages
  /\ num_messages = MaxMessages


\* A step that is a call of store() with a list, which returned.
StoresList ==
  /\ k_calls' # k_calls
  /\ k_ret'.op = "store" /\ k_ret'.exc = "none"
  /\ k_arg'.t = "list"

\* A datum was published to a topic: by this adapter, or by the producer
\* that filled the topic  bulk.
PublishedTo(value, topic) ==
  \/ topic = K_bulk /\ value = Datum_bulk
  \/ \E i \in 1..Len(k_sent) :
       k_sent[i].topic = topic /\ k_sent[i].value = value

\* C17: store(data) publishes every datum of the list, in list order, each
\* to the topic that is its sample_type or metric_type, with its patient_id
\* as key and the datum itself as value; retrieve(T) returns only data that
\* were published to topic T.
C17_StoreRouting ==
  /\ [](\A i \in 1..Len(k_sent) :
          /\ k_sent[i].topic = CreatedType(k_sent[i].value)
          /\ k_sent[i].key = get_patient_id(k_sent[i].value).v)
  /\ [][StoresList =>
          /\ Len(k_sent') = Len(k_sent) + Len(k_arg'.s)
          /\ \A i \in 1..Len(k_arg'.s) :
               k_sent'[Len(k_sent) + i].value = k_arg'.s[i].s]_vars
  /\ [](k_ret.op = "retrieve" =>
          \A j \in 1..Len(k_ret.data) :
            PublishedTo(k_ret.data[j].value, PyStr(k_arg.topic)))


-----------------------------------------------------------------------------
(* Properties of the plane fit                                             *)

\* -a/c and -b/c as the claim gives them for each grid of the model.
ClaimedSlopes(g) ==
  CASE g = Grid_flat -> [x |-> 0, y |-> 0]
    [] g = Grid_column -> [x |-> 1, y |-> 0]
    [] g = Grid_reversed -> [x |-> -1, y |-> 0]
    [] g = Grid_row -> [x |-> 0, y |-> 1]
    [] g = Grid_sum -> [x |-> 1, y |-> 1]

\* The fraction q is the whole number k.
IsWhole(q, k) == q.den > 0 /\ q.num = k * q.den

\* A step that is a call of analyze() in which the flush ran to its end.
Flushes == a_calls' # a_calls /\ a_ret'.flushed

\* The i-th angle metric of a flush is that of the grid g: the angles are
\* 45 degrees times the claimed slopes, in hundredths.
AngleIs(metric, g) ==
  /\ MetricValue(metric, K_x_angle) = 100 * 45 * ClaimedSlopes(g).x
  /\ MetricValue(metric, K_y_angle) = 100 * 45 * ClaimedSlopes(g).y

FlushedAngles(buffer, metrics) ==
  \A i \in 1..Len(buffer) :
    SampleGrid(buffer[i]).v \in Grids => AngleIs(metrics[i], SampleGrid(buffer[i]).v)

\* C18: the plane through the centroids of a grid of equal pressure has
\* a = b = 0; with max_pressure 3 the grid whose pressure is the column
\* index has -a/c = 1 and -b/c = 0, the column-reversed grid -a/c = -1, the
\* row-indexed grid -b/c = 1 and -a/c = 0, the grid of column + row
\* -a/c = -b/c = 1; and the angle metric analyze() returns for a reading of
\* such a grid holds the arctangents of these slopes, 0, 45 or -45 degrees.
C18_PlaneFit ==
  /\ [](Normal(Grid_flat).a = 0 /\ Normal(Grid_flat).b = 0)
  /\ [](\A g \in Grids :
          /\ IsWhole(Slopes(g).x, ClaimedSlopes(g).x)
          /\ IsWhole(Slopes(g).y, ClaimedSlopes(g).y))
  /\ [][Flushes => FlushedAngles(CheckAndFilter(a_arg').buffer,
                                 a_ret'.metrics)]_vars

\* A flush has just returned the angle metrics of one reading of each grid.
C18_Witness ==
  /\ a_ret.flushed
  /\ a_arg.t = "list" /\ Len(a_arg.s) = 5 /\ Len(a_ret.metrics) >= 5
  /\ AngleIs(a_ret.metrics[1], Grid_flat)
  /\ AngleIs(a_ret.metrics[2], Grid_column)
  /\ AngleIs(a_ret.metrics[3], Grid_reversed)
  /\ AngleIs(a_ret.metrics[4], Grid_row)
  /\ AngleIs(a_ret.metrics[5], Grid_sum)


-----------------------------------------------------------------------------
(* Properties of the sliding window                                        *)

IsGradient(m) == DictGet(get_metric(m).v, K_xy_gradient).ok

\* Nothing is saved from earlier flushes.
NothingSaved ==
  /\ \A k \in 1..Len(saved_angle_pmetrics_by_id) :
       saved_angle_pmetrics_by_id[k].items = <<>>
  /\ \A k \in 1..Len(saved_gradient_pmetrics_by_id) :
       saved_gradient_pmetrics_by_id[k].items = <<>>

\* The samples of a buffer are those of one patient and device.
OneIdentity(buffer) ==
  /\ buffer # <<>>
  /\ \A i \in 1..Len(buffer) :
       /\ get_patient_id(buffer[i]) = get_patient_id(buffer[1])
       /\ get_device_id(buffer[i]) = get_device_id(buffer[1])

\* How many angle metrics are left in the accumulator.
AngleLeft(dict) == SumSeq(List([k \in 1..Len(dict) |-> Len(dict[k].items)]))

\* 60 * |{j : g[j].xy_gradient > 2}| / (timestamp(g[last]) - timestamp(g[1]))
\* of a window g, in hundredths, the timestamps being in hundredths.
WindowRate(g) ==
  (60 * 100 * 100 * Cardinality({j \in 1..Len(g) :
                                  MetricValue(g[j], K_xy_gradient) > 2 * 100}))
    \div (FloatVal(get_timestamp(g[Len(g)]).v) - FloatVal(get_timestamp(g[1]).v))

\* The rate metrics are those of the unit-step windows of the gradients.
SlidingRates(gradients, rates) ==
  /\ Len(gradients) >= movements_per_min_period
       => Len(rates) = Len(gradients) - movements_per_min_period + 1
  /\ \A i \in 1..Len(rates) :
       MetricValue(rates[i], K_movements_per_min) =
         WindowRate(SubSeq(gradients, i, i + movements_per_min_period - 1))

\* C19: when the samples of one identity are fed in a single flush, nothing
\* being saved from earlier ones, the i-th movements_per_min metric emitted
\* is 60 times the number of gradients above 2 in the i-th window of
\* movements_per_min_period gradients, divided by the time between the
\* window's first and last gradient; and as many gradient metrics are
\* emitted as samples were fed less those left in the angle accumulator.
C19_SlidingWindow ==
  [][(Flushes /\ NothingSaved /\ OneIdentity(CheckAndFilter(a_arg').buffer))
       => /\ Len(SelectSeq(a_ret'.metrics, IsGradient)) =
               Len(CheckAndFilter(a_arg').buffer)
                 - AngleLeft(saved_angle_pmetrics_by_id')
          /\ SlidingRates(SelectSeq(a_ret'.metrics, IsGradient),
                          SelectSeq(a_ret'.metrics, IsRate))]_vars

\* A first flush has returned the rates of more than one window.
C19_Witness ==
  /\ a_calls = 1 /\ a_ret.flushed
  /\ Len(SelectSeq(a_ret.metrics, IsGradient)) > movements_per_min_period
  /\ Len(SelectSeq(a_ret.metrics, IsRate)) >= 2


-----------------------------------------------------------------------------
(* pimapsenseudp.py, pimapsensetcp.py: __init__                             *)

K_nonsense == <<"n", "o", "n", "s", "e", "n", "s", "e">>

\* The port arguments of the callers: the default, the ends of the range
\* and their neighbours, a text, a text of digits, a float with a fraction
\* (2000.5) and None.
PortArgs ==
  {PyI(ListenPort), PyI(1023), PyI(1024), PyI(65535), PyI(65536),
   PyS(K_nonsense), PyS(<<"2", "0", "0", "0">>), PyF100(200050), PyNone}

\* int(v): the exception it raises, or the int.
IntOf(v) ==
  CASE v.t = "int" -> [exc |-> "none", n |-> v.n]
    [] v.t = "float" -> [exc |-> "none", n |-> v.n]
    [] v.t = "float100" ->
         [exc |-> "none",
          n |-> IF v.n < 0 THEN -((-v.n) \div 100) ELSE v.n \div 100]
    [] v.t = "str" ->
         IF v.s # <<>> /\ \A i \in 1..Len(v.s) : IsDigit(v.s[i])
           THEN [exc |-> "none", n |-> DigitsVal(v.s)]
           ELSE [exc |-> "ValueError", n |-> 0]
    [] OTHER -> [exc |-> "TypeError", n |-> 0]

\* The processes __init__ starts: the network workers and, for TCP, the
\* classification workers.
WorkersOf(class) ==
  IF class = "tcp" THEN SenseWorkers + PimapWorkers ELSE SenseWorkers

ConstructInit ==
  /\ CodecIdle /\ SenseIdle /\ AnalyzeIdle /\ StoreIdle
  /\ c_pc = "new"
  /\ c_args \in [class : {"udp", "tcp"}, port : PortArgs, resolves : BOOLEAN,
                 free : BOOLEAN]
  /\ c_port = 0 /\ c_socket = "none" /\ c_workers = <<>> /\ c_exc = "none"

ConstructRaise(exc) == c_pc' = "raised" /\ c_exc' = exc

\* self.port = int(port)
ParsePort ==
  /\ c_pc = "new"
  /\ IF IntOf(c_args.port).exc # "none"
       THEN ConstructRaise(IntOf(c_args.port).exc) /\ UNCHANGED c_port
       ELSE c_pc' = "range" /\ c_port' = IntOf(c_args.port).n /\ UNCHANGED c_exc
  /\ UNCHANGED <<c_args, c_socket, c_workers>>
  /\ UNCHANGED <<codecVars, senseVars, analyzeVars, storeVars>>

\* if self.port < 1024 or self.port > 65535: raise(ValueError(...))
CheckPort ==
  /\ c_pc = "range"
  /\ IF c_port < 1024 \/ c_port > 65535
       THEN ConstructRaise("ValueError")
       ELSE c_pc' = "resolve" /\ UNCHANGED c_exc
  /\ UNCHANGED <<c_args, c_port, c_socket, c_workers>>
  /\ UNCHANGED <<codecVars, senseVars, analyzeVars, storeVars>>

\* socket.getaddrinfo(...) raises socket.gaierror for a host that does not
\* resolve; socket.socket(...) follows it.
Resolve ==
  /\ c_pc = "resolve"
  /\ IF c_args.resolves
       THEN c_pc' = "bind" /\ c_socket' = "open" /\ UNCHANGED c_exc
       ELSE ConstructRaise("socket.error") /\ UNCHANGED c_socket
  /\ UNCHANGED <<c_args, c_port, c_workers>>
  /\ UNCHANGED <<codecVars, senseVars, analyzeVars, storeVars>>

\* try: self.socket.bind(address)
\* except socket.error as e: self.socket.close(); raise e
Bind ==
  /\ c_pc = "bind"
  /\ IF c_args.free
       THEN c_pc' = "spawn" /\ c_socket' = "bound" /\ UNCHANGED c_exc
       ELSE ConstructRaise("socket.error") /\ c_socket' = "closed"
  /\ UNCHANGED <<c_args, c_port, c_workers>>
  /\ UNCHANGED <<codecVars, senseVars, analyzeVars, storeVars>>

\* worker_process.start(), once per pass of the loops.
Spawn ==
  /\ c_pc = "spawn"
  /\ Len(c_workers) < WorkersOf(c_args.class)
  /\ c_workers' = Append(c_workers, [alive |-> TRUE])
  /\ UNCHANGED <<c_pc, c_args, c_port, c_socket, c_exc>>
  /\ UNCHANGED <<codecVars, senseVars, analyzeVars, storeVars>>

\* __init__ returns.
ConstructReturn ==
  /\ c_pc = "spawn"
  /\ Len(c_workers) = WorkersOf(c_args.class)
  /\ c_pc' = "returned"
  /\ UNCHANGED <<c_args, c_port, c_socket, c_workers, c_exc>>
  /\ UNCHANGED <<codecVars, senseVars, analyzeVars, storeVars>>

ConstructNext ==
  \/ ParsePort \/ CheckPort \/ Resolve \/ Bind \/ Spawn \/ ConstructReturn

SpecConstruct == ConstructInit /\ [][ConstructNext]_vars

-----------------------------------------------------------------------------
(* Properties of the construction                                          *)

\* The port argument is an integer: an int, a float without a fraction, or
\* a text of digits.
IntegerPort(v) ==
  \/ v.t \in {"int", "float"}
  \/ v.t = "str" /\ v.s # <<>> /\ \A i \in 1..Len(v.s) : IsDigit(v.s[i])

\* A port that is not an integer, or one outside 1024..65535.
BadPort(v) ==
  \/ ~IntegerPort(v)
  \/ (IF v.t = "str" THEN DigitsVal(v.s) ELSE v.n) \notin 1024..65535

\* C20: a constructor given a port that is not an integer or is outside
\* 1024..65535 raises ValueError with no socket created and no worker
\* started; a failure to bind raises the socket error with the socket
\* closed and no worker started; there are workers only when the
\* constructor did not raise, and when it has returned all its workers are
\* there and alive.
C20_ConstructionFailures ==
  /\ c_pc # "off" /\ BadPort(c_args.port) =>
       /\ c_pc \in {"new", "range", "raised"}
       /\ c_pc = "raised" => c_exc = "ValueError"
       /\ c_socket = "none" /\ c_workers = <<>>
  /\ c_exc = "socket.error" =>
       /\ c_socket = (IF c_args.resolves THEN "closed" ELSE "none")
       /\ c_workers = <<>>
  /\ c_workers # <<>> => c_exc = "none" /\ c_pc \in {"spawn", "returned"}
  /\ c_pc = "returned" =>
       /\ Len(c_workers) = WorkersOf(c_args.class)
       /\ \A i \in 1..Len(c_workers) : c_workers[i].alive


-----------------------------------------------------------------------------
(* Properties of the classification                                        *)

\* Each record of a batch classified by itself, at time t.
PerRecord(item, t) ==
  [i \in 1..Len(item.processed) |->
     Classify(TcpSampleType,
              [data |-> item.processed[i] \o Terminator, addr |-> item.address],
              t)]

\* A classification worker has taken a batch from the intermediate queue.
Classifies(p) == ppc[p] = "get" /\ ppc'[p] # "get"

\* What the worker has put is the batch classified record by record.
PutPerRecord(p, item, puts) ==
  \E t \in ClockReads :
    /\ Len(puts) = Len(pdq.fbuf[p]) + Len(item.processed)
    /\ \A i \in 1..Len(item.processed) :
         /\ PerRecord(item, t)[i].ok
         /\ puts[Len(pdq.fbuf[p]) + i] = PerRecord(item, t)[i].v

\* C21: every datum sense() returns, and every datum on the output queue,
\* validates; and a classification worker that takes a batch puts, for each
\* record of it, the record itself if it validates and the wrapped record
\* if it does not.
C21_PerRecordClassification ==
  /\ [](\A r \in 1..Len(results) :
          \A i \in 1..Len(results[r].data) :
            validate_datum(results[r].data[i]))
  /\ [](\A i \in 1..Len(QueueItems(pdq)) : validate_datum(QueueItems(pdq)[i]))
  /\ [][\A p \in PWorkers :
          Classifies(p) => PutPerRecord(p, Head(raq.pipe), pdq'.fbuf[p])]_vars


\* A UDP worker is done with the datagram it received.
Classified(w) == wpc[w] = "got" /\ wpc'[w] # "got"

\* d is the Sample the listener makes of the unit rx at time t.
WrapsUnit(d, rx, t) ==
  /\ validate_datum(d)
  /\ get_sample_type(d) = Ok(UdpSampleType)
  /\ get_patient_id(d) = Ok(PyStr(rx.addr.ip))
  /\ get_device_id(d) = Ok(PyStr(rx.addr.port))
  /\ get_sample(d) = Ok(rx.data)
  /\ get_timestamp(d) = Ok(PyStr(PyF(t)))

\* C22: a worker that is done with an input unit has put exactly one datum
\* for it: the unit itself, byte for byte, if the unit validates; else a
\* Sample of the listener's sample type whose patient_id is the sender's IP
\* address, whose device_id is the sender's port, whose sample is the unit
\* unchanged and whose timestamp is the time of wrapping.
C22_Wrapping ==
  [][\A w \in Workers :
       Classified(w) =>
         /\ Len(pdq'.fbuf[w]) = Len(pdq.fbuf[w]) + 1
         /\ SubSeq(pdq'.fbuf[w], 1, Len(pdq.fbuf[w])) = pdq.fbuf[w]
         /\ LET d == pdq'.fbuf[w][Len(pdq'.fbuf[w])]
            IN IF validate_datum(wloc[w].rx.data)
                 THEN d = wloc[w].rx.data
                 ELSE WrapsUnit(d, wloc[w].rx, now')]_vars


-----------------------------------------------------------------------------
(* TCP framing: one connection, its byte stream read in every division       *)

\* Byte streams a client sends on one connection: three records, the last
\* one unterminated; an empty record; three ";" in a row; and a record
\* with a character of two bytes.
FramingStreams ==
  {<<"a", ";", ";", "b", ";", ";", "c">>,
   <<"a", ";", ";", ";", ";", "b">>,
   <<"a", ";", ";", ";", "b", ";", ";">>,
   <<Byte_C3, Byte_A9, ";", ";", "a", ";", ";">>}

\* Every division of the bytes s into the reads recv() makes of them.
RECURSIVE Divisions(_)
Divisions(s) ==
  IF s = <<>> THEN {<<>>}
  ELSE UNION {{<<SubSeq(s, 1, k)>> \o d :
                 d \in Divisions(SubSeq(s, k + 1, Len(s)))} : k \in 1..Len(s)}

\* Accept-worker 1 has accepted the connection of a client that has sent
\* its stream.
FramingInit ==
  /\ CodecIdle
  /\ RestIdle
  /\ transport = "tcp"
  /\ now = ClockStart
  /\ running = TRUE
  /\ sockbuf = <<>>
  /\ \E stream \in FramingStreams :
       \E division \in Divisions(stream) :
         /\ conns = <<[chunks |-> division, open |-> TRUE, st |-> "accepted"]>>
         /\ sentLog = <<division>>
  /\ wpc = [w \in Workers |-> IF w = 1 THEN "recv" ELSE "loop"]
  /\ wloc = [w \in Workers |->
               [conn |-> IF w = 1 THEN 1 ELSE NoConn, received |-> <<>>,
                raised |-> FALSE]]
  /\ ppc = [p \in 1..PimapWorkers |-> "loop"]
  /\ ploc = [p \in 1..PimapWorkers |-> [raised |-> FALSE]]
  /\ raq = EmptyQueue(SenseWorkers)
  /\ pdq = EmptyQueue(PimapWorkers)
  /\ mpc = "idle"
  /\ mloc = <<>>
  /\ system_samples = FALSE
  /\ host = Host_local
  /\ sensed_data = 0
  /\ system_samples_updated = ClockStart
  /\ latencies = <<>>
  /\ results = <<>>
  /\ recvLog = <<>>

\* The worker reads the connection to its end; nothing takes from the
\* intermediate queue.
FramingNext ==
  \/ TcpRecv(1)
  \/ TcpRecvEof(1)
  \/ TcpClientClose(1)
  \/ TcpFeedRaq(1)
  \/ TcpWorkerExit(1)

SpecFraming == FramingInit /\ [][FramingNext]_vars

\* The bytes sent on the connection and those of them recv() has returned.
StreamBytes == Flat(sentLog[1])
ReadBytes ==
  SubSeq(StreamBytes, 1, Len(StreamBytes) - Len(Flat(conns[1].chunks)))

\* The records the accept-worker has pushed, in push order.
PushedRecords ==
  Flat([i \in 1..Len(QueueItems(raq)) |-> QueueItems(raq)[i].processed])

\* The text of each piece of a byte string.
DecodeEach(pieces) == [i \in 1..Len(pieces) |-> decode(pieces[i]).v]

\* C23: in whatever reads the stream arrives, the records pushed so far are
\* the records the bytes read so far terminate, in stream order and each
\* once; what follows the last terminator read is carried to the next read;
\* and the worker leaves the connection only when every byte sent is read.
C23_FramingIndependentOfReads ==
  /\ PushedRecords = DecodeEach(RecvProcessed(ReadBytes))
  /\ wloc[1].conn = 1 =>
       wloc[1].received = decode(RecvWindow(ReadBytes)).v
  /\ wpc[1] # "recv" => conns[1].chunks = <<>>


\* Accept-worker 1 has appended a read to its window.
Appends == conns'[1].chunks # conns[1].chunks /\ ~wloc'[1].raised

\* The window the read has made, before the split.
ReadWindow == wloc[1].received \o decode(Head(conns[1].chunks)).v

\* Accept-worker 1 pushes one batch (nothing takes from the queue here).
Pushes == Len(QueueItems(raq')) = Len(QueueItems(raq)) + 1

\* C24 as claimed: the accept-worker pushes a batch only when the window
\* holds at least two terminators; a window with one terminator is not
\* flushed.
C24_FlushAfterTwoTerminators ==
  [][Pushes => Len(PySplit(ReadWindow, Terminator)) - 1 >= 2]_vars

\* C24 amended: the accept-worker pushes a batch exactly when the window
\* it has appended a read to holds at least one terminator, and the batch
\* holds every record the window terminates.
C24_FlushAfterOneTerminator ==
  [][/\ Pushes => Appends
     /\ Appends =>
          /\ Pushes <=> Len(PySplit(ReadWindow, Terminator)) - 1 >= 1
          /\ Pushes =>
               /\ Len(QueueItems(raq')[Len(QueueItems(raq'))].processed)
                    = Len(PySplit(ReadWindow, Terminator)) - 1
               /\ wloc'[1].received
                    = PySplit(ReadWindow, Terminator)[
                        Len(PySplit(ReadWindow, Terminator))]
          /\ ~Pushes => /\ wloc'[1].received = ReadWindow
                        /\ QueueItems(raq') = QueueItems(raq)]_vars

\* One terminator has been read, and the batch of its record is queued.
C24_Witness ==
  /\ Len(PySplit(ReadBytes, Terminator)) = 2
  /\ Len(QueueItems(raq)) = 1
  /\ PushedRecords = <<<<"a">>>>


-----------------------------------------------------------------------------
(* The classification pool with more than one worker                       *)

\* pimap_workers of a listener constructed with a pool.
PoolWorkers == 2

\* What the client of the pool sends, as reads: two records in two reads,
\* and one text.
PoolStreams == {<<In_v9, In_v10>>, <<In_text \o Terminator>>}

\* The listener after PimapSenseTcp(pimap_workers=PoolWorkers) returned
\* and accept-worker 1 has accepted the connection of a client that has sent
\* its stream.
PoolInit ==
  /\ CodecIdle
  /\ RestIdle
  /\ transport = "tcp"
  /\ now = ClockStart
  /\ running = TRUE
  /\ sockbuf = <<>>
  /\ \E stream \in PoolStreams :
       /\ conns = <<[chunks |-> stream, open |-> TRUE, st |-> "accepted"]>>
       /\ sentLog = <<stream>>
  /\ wpc = [w \in Workers |-> IF w = 1 THEN "recv" ELSE "loop"]
  /\ wloc = [w \in Workers |->
               [conn |-> IF w = 1 THEN 1 ELSE NoConn, received |-> <<>>,
                raised |-> FALSE]]
  /\ ppc = [p \in 1..PoolWorkers |-> "loop"]
  /\ ploc = [p \in 1..PoolWorkers |-> [raised |-> FALSE]]
  /\ raq = EmptyQueue(SenseWorkers)
  /\ pdq = EmptyQueue(PoolWorkers)
  /\ mpc = "idle"
  /\ mloc = <<>>
  /\ system_samples = FALSE
  /\ host = Host_local
  /\ sensed_data = 0
  /\ system_samples_updated = ClockStart
  /\ latencies = <<>>
  /\ results = <<>>
  /\ recvLog = <<>>

\* Both pools and close(); no other client connects and sense() is not
\* called.
PoolNext ==
  \/ \E w \in Workers :
       \/ TcpWorkerLoop(w)
       \/ TcpAcceptTimeout(w)
       \/ TcpRecv(w)
       \/ TcpRecvEof(w)
       \/ TcpFeedRaq(w)
       \/ TcpWorkerExit(w)
  \/ \E p \in PWorkers : TcpPimapWorker(p)
  \/ TcpClientClose(1)
  \/ TcpClose

SpecPool == PoolInit /\ [][PoolNext]_vars

\* C25: a classification worker that calls get() on the intermediate
\* queue finds a batch there; and once the accept-workers have exited, every
\* classification worker that has not exited can take a step, so that after
\* close() every classification worker exits.
C25_NonBlockingDrain ==
  /\ \A p \in PWorkers : ppc[p] = "get" => ENABLED TcpPimapGet(p)
  /\ (\A w \in Workers : wpc[w] = "done") =>
       \A p \in PWorkers : ppc[p] = "done" \/ ENABLED TcpPimapWorker(p)


-----------------------------------------------------------------------------
(* Properties of the list analyze() returns                                *)

\* return pimap_metrics + pimap_system_samples
AnalyzeReturned(ret) == ret.metrics \o ret.system

IsAngle(m) == DictGet(get_metric(m).v, K_x_angle).ok

IsTelemetry(d) == get_sample_type(d) = Ok(K_system_samples)

\* The metric m has the identity and the timestamp of the datum d.
SameIdentity(m, d) ==
  /\ get_patient_id(m) = get_patient_id(d)
  /\ get_device_id(m) = get_device_id(d)
  /\ get_timestamp(m) = get_timestamp(d)

\* The order of a returned list: the angle metrics of the buffer, then
\* gradients, then rates, then telemetry.
AnglesFirst(buffer, returned) ==
  /\ Len(returned) >= Len(buffer)
  /\ \A i \in 1..Len(buffer) :
       /\ get_metric_type(returned[i]).ok
       /\ IsAngle(returned[i])
       /\ SameIdentity(returned[i], buffer[i])
  /\ \A i \in (Len(buffer) + 1)..Len(returned) :
       /\ ~IsAngle(returned[i])
       /\ IsGradient(returned[i]) \/ IsRate(returned[i]) \/ IsTelemetry(returned[i])
       /\ \A j \in (i + 1)..Len(returned) :
            /\ IsRate(returned[i]) => ~IsGradient(returned[j])
            /\ IsTelemetry(returned[i]) =>
                 ~IsGradient(returned[j]) /\ ~IsRate(returned[j])

\* C26: a flush over a buffer of n samples returns a list whose first n
\* elements are angle metrics, the i-th with the patient_id, device_id and
\* timestamp of the i-th buffered sample; no other element is an angle
\* metric; the gradient metrics follow, then the rate metrics, then the
\* telemetry datum if there is one.
C26_AnglesFirst ==
  [][Flushes => AnglesFirst(CheckAndFilter(a_arg').buffer,
                            AnalyzeReturned(a_ret'))]_vars

\* A flush over five samples has returned angle, gradient and rate metrics
\* and a telemetry datum.
C26_Witness ==
  /\ a_ret.flushed
  /\ Len(SelectSeq(AnalyzeReturned(a_ret), IsAngle)) = 5
  /\ \E i \in 1..Len(a_ret.metrics) : IsGradient(a_ret.metrics[i])
  /\ \E i \in 1..Len(a_ret.metrics) : IsRate(a_ret.metrics[i])
  /\ Len(a_ret.system) = 1 /\ IsTelemetry(a_ret.system[1])


-----------------------------------------------------------------------------
(* Properties of the gradient window                                       *)

\* The datums of a list that carry the identity of a dict entry.
OfEntry(data, entry) ==
  SelectSeq(data, LAMBDA m : /\ get_patient_id(m) = Ok(entry.pid)
                             /\ get_device_id(m) = Ok(entry.did))

\* What entry k of a dict holds (nothing if there is no such entry).
ItemsBefore(dict, k) == IF k \in 1..Len(dict) THEN dict[k].items ELSE <<>>

\* The gradient window of one identity in a flush: accumulated is what its
\* accumulator held with the angle metrics of this flush, gradients and
\* rates are the metrics the flush returned for it, and left and saved are
\* its accumulator and its saved gradient list after the flush, the list
\* having been saved_before.
ConsumedWindow(accumulated, gradients, rates, left, saved_before, saved) ==
  IF Len(accumulated) >= gradient_period
    THEN /\ Len(gradients) = Len(accumulated)
         /\ \A i \in 1..Len(accumulated) :
              SameIdentity(gradients[i], accumulated[i])
         /\ left = <<>>
         /\ saved = SubSeq(saved_before \o gradients, Len(rates) + 1,
                           Len(saved_before) + Len(gradients))
    ELSE /\ gradients = <<>>
         /\ left = accumulated
         /\ saved = SubSeq(saved_before, Len(rates) + 1, Len(saved_before))

\* Every identity's window in a flush that returned metrics.
ConsumedWindows(angles, metrics) ==
  \A k \in 1..Len(saved_angle_pmetrics_by_id') :
    ConsumedWindow(
      ItemsBefore(saved_angle_pmetrics_by_id, k)
        \o OfEntry(angles, saved_angle_pmetrics_by_id'[k]),
      OfEntry(SelectSeq(metrics, IsGradient), saved_angle_pmetrics_by_id'[k]),
      OfEntry(SelectSeq(metrics, IsRate), saved_angle_pmetrics_by_id'[k]),
      saved_angle_pmetrics_by_id'[k].items,
      ItemsBefore(saved_gradient_pmetrics_by_id,
                  KeyIndex(saved_gradient_pmetrics_by_id',
                           saved_angle_pmetrics_by_id'[k].pid,
                           saved_angle_pmetrics_by_id'[k].did)),
      ItemsBefore(saved_gradient_pmetrics_by_id',
                  KeyIndex(saved_gradient_pmetrics_by_id',
                           saved_angle_pmetrics_by_id'[k].pid,
                           saved_angle_pmetrics_by_id'[k].did)))

\* C27: in a flush, an identity whose angle accumulator, with the angle
\* metrics of the flush, holds k >= gradient_period metrics gets k gradient
\* metrics, one per accumulated angle metric, in order and with its identity
\* and timestamp; these are appended to the identity's saved gradient list
\* (from whose head the rate loop then removes one per rate), and the
\* accumulator is emptied; an identity with fewer gets none and keeps them.
\* After every call of analyze() every accumulator holds fewer than
\* gradient_period metrics.
C27_GradientWindowConsumed ==
  /\ [](\A k \in 1..Len(saved_angle_pmetrics_by_id) :
          Len(saved_angle_pmetrics_by_id[k].items) < gradient_period)
  /\ [][Flushes =>
          ConsumedWindows(SubSeq(a_ret'.metrics, 1,
                                 Len(CheckAndFilter(a_arg').buffer)),
                          a_ret'.metrics)]_vars

\* A flush has consumed the window of one identity and left the metrics of
\* another in its accumulator.
C27_Witness ==
  /\ a_ret.flushed
  /\ Len(saved_angle_pmetrics_by_id) = 2
  /\ \E k \in 1..2 : saved_angle_pmetrics_by_id[k].items = <<>>
  /\ \E k \in 1..2 : Len(saved_angle_pmetrics_by_id[k].items) \in 1..4
  /\ Len(SelectSeq(a_ret.metrics, IsGradient)) = gradient_period


-----------------------------------------------------------------------------
(* analyze() of samples that no encoder made                               *)

\* A pressure_bandage sample written by hand, with a patient_id that
\* create_pimap_sample refuses and validate_datum accepts.
K_a_colon_b == <<"a", ":", "b">>
HandWritten(g, ts) ==
  SampleWire(K_pressure_bandage, K_a_colon_b, <<"1">>, GridStr(g), PyStr(ts))

\* Five such readings, those of call number n.
HandWrittenArg(n) ==
  PyList(<<PyS(HandWritten(Grid_flat, Stamp(n, 1))),
           PyS(HandWritten(Grid_column, Stamp(n, 2))),
           PyS(HandWritten(Grid_flat, Stamp(n, 3))),
           PyS(HandWritten(Grid_reversed, Stamp(n, 4))),
           PyS(HandWritten(Grid_flat, Stamp(n, 5)))>>)

\* A call with the hand-written readings.
AnalyzeHandWritten ==
  /\ analyzer = "on"
  /\ a_calls < MaxCalls \/ a_calls = a_steady
  /\ AnalyzeChecked(HandWrittenArg(a_calls), CheckAndFilter(HandWrittenArg(a_calls)))
  /\ UNCHANGED a_steady
  /\ UNCHANGED <<codecVars, senseVars, storeVars, constructVars>>

RateNext == AnalyzeNext \/ AnalyzeHandWritten

SpecRate == AnalyzeInit /\ [][RateNext]_vars

\* The rate window of one identity in a flush: held is its saved gradient
\* list when the rate step starts, rates the rate metrics the flush
\* returned for it, saved its list after the flush.
SlidWindow(held, rates, saved) ==
  /\ Len(rates) = Max(0, Len(held) - (movements_per_min_period - 1))
  /\ \A i \in 1..Len(rates) :
       MetricValue(rates[i], K_movements_per_min) =
         WindowRate(SubSeq(held, i, i + movements_per_min_period - 1))
  /\ saved = SubSeq(held, Len(rates) + 1, Len(held))

\* Every identity's rate window in a flush that returned metrics.
SlidWindows(metrics) ==
  \A k \in 1..Len(saved_gradient_pmetrics_by_id') :
    SlidWindow(
      ItemsBefore(saved_gradient_pmetrics_by_id, k)
        \o OfEntry(SelectSeq(metrics, IsGradient),
                   saved_gradient_pmetrics_by_id'[k]),
      OfEntry(SelectSeq(metrics, IsRate), saved_gradient_pmetrics_by_id'[k]),
      saved_gradient_pmetrics_by_id'[k].items)

\* Every saved gradient list is shorter than the rate window.
ShortOfWindow ==
  \A k \in 1..Len(saved_gradient_pmetrics_by_id) :
    Len(saved_gradient_pmetrics_by_id[k].items) < movements_per_min_period

\* C28: in a flush, an identity whose saved gradient list holds L elements
\* when the rate step starts gets max(0, L - (movements_per_min_period - 1))
\* rate metrics, the i-th computed over the movements_per_min_period oldest
\* elements left after i - 1 removals, and that many oldest elements are
\* removed; after every call of analyze() every saved gradient list holds
\* fewer than movements_per_min_period elements.
C28_RateWindowSlides ==
  /\ []ShortOfWindow
  /\ [][Flushes => SlidWindows(a_ret'.metrics)]_vars


-----------------------------------------------------------------------------
(* Properties of the size threshold                                        *)

\* The threshold a flush over n samples leaves: limit halved when the flush
\* was over budget, else limit grown by n when n has reached it.
UpdateLaw(limit, n, over, new) ==
  IF over THEN 2 * new = limit
  ELSE IF n * LimitUnit >= limit THEN new = limit + n * LimitUnit
  ELSE new = limit

\* C29: the size threshold changes only in a flush that runs to its end,
\* and there by this law: a flush that took longer than analyze_period
\* leaves half the old threshold; any other flush over a buffer of n samples
\* leaves the old threshold plus n if n is at or above it, and the old
\* threshold if not, n being the length of the buffer before it is cleared.
C29_ThresholdUpdateLaw ==
  [][IF Flushes
       THEN UpdateLaw(aggregation_limit, Len(CheckAndFilter(a_arg').buffer),
                      a_ret'.over, aggregation_limit')
       ELSE aggregation_limit' = aggregation_limit]_vars

\* After the steady stream has halved the threshold below one sample, a
\* flush within budget has grown it.
C29_Witness ==
  /\ a_steady = MaxSteady /\ a_calls > a_steady
  /\ a_ret.flushed /\ ~a_ret.over
  /\ aggregation_limit > LimitUnit


-----------------------------------------------------------------------------
(* Properties of the telemetry of sense()                                  *)

\* return pimap_data + pimap_system_samples
SenseOutput(res) == res.data \o res.system

\* How many data datums the calls up to call r returned since the last
\* call that returned a system sample.
RECURSIVE SinceReport(_, _)
SinceReport(rs, r) ==
  IF r = 0 \/ rs[r].system # <<>> THEN 0
  ELSE (IF rs[r].ok THEN Len(rs[r].data) ELSE 0) + SinceReport(rs, r - 1)

\* The call of sense() that returned res with a system sample, after the
\* calls that returned rs, more than a period after the last report.
Accounted(res, rs, elapsed) ==
  /\ system_samples
  /\ elapsed > system_samples_period
  /\ Len(res.system) = 1
  /\ get_sample_type(res.system[1]) = Ok(K_system_samples)
  /\ get_patient_id(res.system[1]) = Ok(K_sense)
  /\ Reported(res.system[1], K_throughput)
       = PerSecond(Len(res.data) + SinceReport(rs, Len(rs)), 100 * elapsed)
  /\ SenseOutput(res)[Len(SenseOutput(res))] = res.system[1]
  /\ SubSeq(SenseOutput(res), 1, Len(SenseOutput(res)) - 1) = res.data
  /\ \A i \in 1..Len(res.data) : get_patient_id(res.data[i]) # Ok(K_sense)
  /\ sensed_data' = 0
  /\ system_samples_updated' = now'

\* C30: a call of sense() returns a system sample only with telemetry
\* enabled and more than system_samples_period after the last report; the
\* throughput it reports is the number of data datums sense() returned
\* since the last report, those of this call included, divided by the time
\* since then; it is the last element of the returned list, after the data;
\* the count and the start of the period are reset with it, and a call
\* that returns no system sample adds its data to the count and leaves the
\* start of the period alone.
C30_SenseAccounting ==
  [][Len(results') > Len(results) =>
       IF SenseResult.system # <<>>
         THEN Accounted(SenseResult, results, now' - system_samples_updated)
         ELSE /\ system_samples_updated' = system_samples_updated
              /\ SenseResult.ok =>
                   /\ sensed_data' = sensed_data + Len(SenseResult.data)
                   /\ SenseOutput(SenseResult) = SenseResult.data]_vars

\* A call has returned data and, after them, a system sample that counts
\* them and the data an earlier call returned.
C30_Witness ==
  /\ Len(results) = 2
  /\ results[1].ok /\ results[1].data # <<>> /\ results[1].system = <<>>
  /\ results[2].ok /\ results[2].data # <<>> /\ Len(results[2].system) = 1
  /\ sensed_data = 0


-----------------------------------------------------------------------------
(* Properties of the telemetry of analyze()                                *)

\* How many samples of the expected type the call just made added to the
\* aggregation buffer.
Accepted == Len(CheckAndFilter(a_arg').buffer) - Len(aggregation_buffer)

\* The call just made returned, with telemetry enabled, leaving or
\* reporting sin samples in and mout metrics out.
AnalyzeAccounted(sin, mout) ==
  IF a_ret'.system = <<>>
    THEN samples_in' = sin /\ metrics_out' = mout
    ELSE /\ Reported(a_ret'.system[1], K_throughput_in)
              = PerSecond(sin, a_now' - a_system_samples_updated)
         /\ Reported(a_ret'.system[1], K_throughput_out)
              = PerSecond(mout, a_now' - a_system_samples_updated)
         /\ Reported(a_ret'.system[1], K_aggregation_limit)
              = LimitStr(aggregation_limit')
         /\ Reported(a_ret'.system[1], K_aggregation)
              = IntStr(Len(aggregation_buffer'))
         /\ samples_in' = 0 /\ metrics_out' = 0

\* C31: with telemetry enabled, every call of analyze() that returns adds
\* the samples of the expected type it accepted to the samples-in count and
\* the metrics it returns to the metrics-out count, whether it flushed or
\* not; a report carries the two counts over the time since the last
\* report, the adaptive threshold and the length of the pending buffer, and
\* resets the two counts.
C31_AnalyzeAccounting ==
  [][(a_calls' # a_calls /\ a_system_samples /\ a_ret'.exc = "none")
       => AnalyzeAccounted(samples_in + Accepted,
                           metrics_out + Len(a_ret'.metrics))]_vars


-----------------------------------------------------------------------------
(* Properties of the publish loop of store()                               *)

Stores == k_calls' # k_calls /\ k_ret'.op = "store"

\* How many messages the broker and the producer's queue hold.
RECURSIVE BrokerLen(_)
BrokerLen(b) == IF b = <<>> THEN 0 ELSE LogLen(Head(b).log) + BrokerLen(Tail(b))
Held(b, queue) == BrokerLen(b) + Len(queue)

-----------------------------------------------------------------------------
(* Properties of the subscriptions of the store                            *)

\* The consumers of before are those of after, but for the offset of the
\* k-th.
SameBut(before, after, k) ==
  \A i \in 1..Len(before) :
    IF i = k
      THEN /\ after[i].topic = before[i].topic
           /\ after[i].st = before[i].st
           /\ after[i].offset >= before[i].offset
      ELSE after[i] = before[i]

\* The consumer of a topic polled the messages of its log from the offset
\* from on, and retrieve() without a patient_id returned them.
PolledFrom(topic, consumer, from) ==
  /\ consumer.topic = topic
  /\ consumer.st = "subscribed"
  /\ consumer.offset - from <= k_ret'.polled
  /\ (k_arg'.patient_id = PyNone /\ k_ret'.exc = "none") =>
       k_ret'.data = TakeRuns(TopicLog(broker, topic), from, consumer.offset - from)

\* retrieve() of a topic whose consumer is the k-th, or is missing (k = 0).
SubscribesOnce(topic, k) ==
  IF k = 0
    THEN /\ Len(consumer_dict') = Len(consumer_dict) + 1
         /\ SameBut(consumer_dict, consumer_dict', 0)
         /\ PolledFrom(topic, consumer_dict'[Len(consumer_dict')], 0)
    ELSE /\ Len(consumer_dict') = Len(consumer_dict)
         /\ SameBut(consumer_dict, consumer_dict', k)
         /\ PolledFrom(topic, consumer_dict'[k], consumer_dict[k].offset)

\* C33: the adapter holds one subscription for each type retrieve() was
\* called with: the first retrieve() of a type creates it, reading from the
\* earliest message, every later retrieve() of the type goes on with it and
\* creates none; close() unsubscribes and closes every subscription, and
\* none is closed before.
C33_Subscriptions ==
  /\ [](\A i, j \in 1..Len(consumer_dict) :
          i # j => consumer_dict[i].topic # consumer_dict[j].topic)
  /\ [](\A i \in 1..Len(consumer_dict) :
          consumer_dict[i].st = IF kafka = "closed" THEN "closed" ELSE "subscribed")
  /\ [][Retrieves =>
          SubscribesOnce(PyStr(k_arg'.topic),
                         TopicIndex(consumer_dict, PyStr(k_arg'.topic)))]_vars
  /\ [][kafka' # kafka =>
          /\ Len(consumer_dict') = Len(consumer_dict)
          /\ \A i \in 1..Len(consumer_dict) :
               consumer_dict'[i] = [consumer_dict[i] EXCEPT !.st = "closed"]]_vars

\* close() has closed two subscriptions, one of which had read messages.
C33_Witness ==
  /\ kafka = "closed"
  /\ Len(consumer_dict) >= 2
  /\ \E i \in 1..Len(consumer_dict) : consumer_dict[i].offset > 0
  /\ \A i \in 1..Len(consumer_dict) : consumer_dict[i].st = "closed"


-----------------------------------------------------------------------------
(* Properties of the centroid geometry                                     *)

\* The cells (x, y) of the 4x4 grid a centroid averages.
Cells(xlocs, ylocs) == {<<xlocs[k], ylocs[k]>> : k \in 1..Len(xlocs)}

\* The cells the layout in the docstring of the module marks c0, c1 and c2.
Layout ==
  [c0 |-> {<<0, 0>>, <<1, 0>>, <<2, 0>>, <<3, 0>>, <<1, 1>>, <<2, 1>>},
   c1 |-> {<<0, 1>>, <<0, 2>>, <<1, 2>>, <<0, 3>>, <<1, 3>>},
   c2 |-> {<<3, 1>>, <<2, 2>>, <<3, 2>>, <<2, 3>>, <<3, 3>>}]

\* C34: the analyzer once constructed averages three sets of cells no two
\* of which share a cell, and they are the sets of the layout: c0 the top
\* row with (1, 1) and (2, 1), c1 the five cells at the lower left, c2 the
\* five cells at the lower right.
C34_CentroidGeometry ==
  analyzer = "on" =>
    /\ Cells(c0_xlocs, c0_ylocs) \cap Cells(c1_xlocs, c1_ylocs) = {}
    /\ Cells(c0_xlocs, c0_ylocs) \cap Cells(c2_xlocs, c2_ylocs) = {}
    /\ Cells(c1_xlocs, c1_ylocs) \cap Cells(c2_xlocs, c2_ylocs) = {}
    /\ Cells(c0_xlocs, c0_ylocs) = Layout.c0
    /\ Cells(c1_xlocs, c1_ylocs) = Layout.c1
    /\ Cells(c2_xlocs, c2_ylocs) = Layout.c2


-----------------------------------------------------------------------------
(* Conservation of the samples of analyze()                                *)

\* How many entries of the list a call was given are of type
\* pressure_bandage, and how many angle metrics a list holds.
AcceptedOf(arg) ==
  Cardinality({i \in 1..Len(arg.s) :
                 arg.s[i].t = "str" /\ get_type(arg.s[i].s) = Ok(K_pressure_bandage)})
NumAngles(returned) ==
  Cardinality({i \in 1..Len(returned) :
                 get_metric_type(returned[i]).ok /\ IsAngle(returned[i])})

\* C35: a call of analyze() that returns leaves every sample of the
\* expected type it found pending or accepted either in the aggregation
\* buffer or turned into one angle metric of its result: a call that flushes
\* returns one angle metric per pending and accepted sample and empties the
\* buffer, a call that does not flush returns no angle metric and keeps them
\* all in the buffer.
C35_SampleConservation ==
  [][(a_calls' # a_calls /\ a_ret'.exc = "none") =>
       /\ Len(aggregation_buffer) + AcceptedOf(a_arg')
            = NumAngles(a_ret'.metrics) + Len(aggregation_buffer')
       /\ IF a_ret'.flushed
            THEN /\ aggregation_buffer' = <<>>
                 /\ AnglesFirst(CheckAndFilter(a_arg').buffer, a_ret'.metrics)
            ELSE /\ NumAngles(a_ret'.metrics) = 0
                 /\ Len(aggregation_buffer') >= Len(aggregation_buffer)]_vars

\* A flush has returned the angle metrics of the samples of its call and of
\* a sample an earlier call had left pending.
C35_Witness ==
  /\ a_calls >= 2
  /\ a_ret.exc = "none" /\ a_ret.flushed
  /\ AcceptedOf(a_arg) >= 1
  /\ NumAngles(a_ret.metrics) > AcceptedOf(a_arg)
  /\ aggregation_buffer = <<>>


-----------------------------------------------------------------------------
(* The entries of the aggregation buffer                                   *)

\* The head of a pressure_bandage sample, cut after its patient_id.
Wire_cut ==
  K_sample \o <<"_">> \o K_type \o <<":">> \o K_pressure_bandage \o
  <<";">> \o K_patient_id \o <<":", "1", ";">>

\* Lists that mix a sample with an entry that does not validate.
MixedArgs(n) ==
  {PyList(<<PyS(Bandage(<<"2">>, Grid_flat, Stamp(n, 1))), PyS(Wire_cut)>>),
   PyList(<<PyS(Wire_cut), PyS(Bandage(<<"2">>, Grid_flat, Stamp(n, 1)))>>),
   PyList(<<PyS(Bandage(<<"2">>, Grid_flat, Stamp(n, 1))), PyI(5)>>)}

\* A call with such a list.
AnalyzeMixed ==
  /\ analyzer = "on"
  /\ a_calls < MaxCalls \/ a_calls = a_steady
  /\ \E arg \in MixedArgs(a_calls) : AnalyzeChecked(arg, CheckAndFilter(arg))
  /\ UNCHANGED a_steady
  /\ UNCHANGED <<codecVars, senseVars, storeVars, constructVars>>

MixedNext == AnalyzeNext \/ AnalyzeMixed

SpecMixed == AnalyzeInit /\ [][MixedNext]_vars

\* C36: whatever lists analyze() was called with, every entry of the
\* aggregation buffer validates as a datum and is of type pressure_bandage.
C36_BufferHoldsValidSamples ==
  \A i \in 1..Len(aggregation_buffer) :
    /\ validate_datum(aggregation_buffer[i])
    /\ get_type(aggregation_buffer[i]) = Ok(K_pressure_bandage)


-----------------------------------------------------------------------------
(* The filter by patient_id of retrieve()                                  *)

\* The offset of the consumer of a topic, 0 when there is none yet.
OffsetAt(consumers, k) == IF k = 0 THEN 0 ELSE consumers[k].offset
OffsetOf(consumers, topic) == OffsetAt(consumers, TopicIndex(consumers, topic))

\* The messages of a list of runs that are of the patient asked for.
Shown(runs, patient_id) ==
  IF patient_id = PyNone THEN runs
  ELSE SelectSeq(runs, LAMBDA run : OfPatient(run, patient_id))

\* retrieve() of a topic moved its consumer from one offset to another and
\* returned, of the messages between the two, those of the patient.
ConsumesHidden(topic, patient_id, from, to) ==
  /\ to >= from
  /\ to - from <= k_ret'.polled
  /\ k_ret'.exc = "none" =>
       k_ret'.data = Shown(TakeRuns(TopicLog(broker, topic), from, to - from),
                           patient_id)
  /\ \A i \in 1..Len(consumer_dict) :
       consumer_dict[i].topic # topic => consumer_dict'[i] = consumer_dict[i]

\* C37: retrieve(T, P) moves the one consumer of T past every message it
\* polled and returns those of patient P among them, so that a message of
\* another patient it polled is not in its result, and, every retrieve() of
\* T reading on from where the consumer stands, in no later result either.
C37_FilterConsumesHidden ==
  [][Retrieves =>
       ConsumesHidden(PyStr(k_arg'.topic), k_arg'.patient_id,
                      OffsetOf(consumer_dict, PyStr(k_arg'.topic)),
                      OffsetOf(consumer_dict', PyStr(k_arg'.topic)))]_vars

\* A retrieve() for one patient has polled a message of another patient
\* with messages of its own, and has returned only its own.
C37_Witness ==
  /\ k_ret.op = "retrieve" /\ k_ret.exc = "none"
  /\ k_arg.patient_id = PyS(<<"1">>)
  /\ k_ret.data # <<>>
  /\ \E i \in 1..Len(TakeRuns(TopicLog(broker, PyStr(k_arg.topic)), 0,
                              OffsetOf(consumer_dict, PyStr(k_arg.topic)))) :
       TakeRuns(TopicLog(broker, PyStr(k_arg.topic)), 0,
                OffsetOf(consumer_dict, PyStr(k_arg.topic)))[i].value = Datum_s2
  /\ \A j \in 1..Len(k_ret.data) : k_ret.data[j].value # Datum_s2


-----------------------------------------------------------------------------
(* store() of a list with an entry it cannot publish                       *)

\* A string with a type and nothing else.
Wire_typed == K_sample \o <<"_">> \o K_type \o <<":", "s", ";">>

\* Lists with an entry without a type, or without a patient_id, between two
\* data.
PartialArgs ==
  {PyList(<<PyS(Datum_s), PyS(Wire_garbage), PyS(Datum_m)>>),
   PyList(<<PyS(Datum_s), PyS(Datum_s2), PyS(Wire_typed)>>),
   PyList(<<PyS(Wire_typed), PyS(Datum_s)>>)}

\* A store() of such a list.
StorePartial ==
  /\ kafka = "on"
  /\ FreeCall
  /\ \E arg \in PartialArgs, advance \in Advances :
       StoreCalled(arg, StoreOutcome(arg, k_now + advance))
  /\ UNCHANGED k_chain

PartialNext == StoreCall \/ StorePartial \/ Deliver

SpecPartial == StoreInit /\ [][PartialNext]_vars

\* The entries of a list are strings one of which validates.
Publishable(arg) ==
  /\ arg.t = "list"
  /\ \A i \in 1..Len(arg.s) : arg.s[i].t = "str"
  /\ \E i \in 1..Len(arg.s) : validate_datum(arg.s[i].s)

\* The entries without a type or without a patient_id.
Unkeyed(arg) ==
  {i \in 1..Len(arg.s) :
     ~get_type(arg.s[i].s).ok \/ ~get_patient_id(arg.s[i].s).ok}
FirstOf(S) == CHOOSE i \in S : \A j \in S : i <= j

\* store() raised at the k-th entry of its list.
RaisedAt(arg, k) ==
  /\ k_ret'.exc = "ValueError"
  /\ k_ret'.system = <<>>
  /\ Len(k_sent') = Len(k_sent) + k - 1
  /\ \A i \in 1..(k - 1) : k_sent'[Len(k_sent) + i].value = arg.s[i].s
  /\ Held(broker', producer') = Held(broker, producer) + k - 1
  /\ stored_data' = stored_data
  /\ stored_system_samples_updated' = stored_system_samples_updated

\* C38: store() of a list of strings one of which validates, with an entry
\* that has no type or no patient_id, raises ValueError at the first such
\* entry: the entries before it were handed to the producer and stay with
\* it or the broker, that entry and those after it are not published, and
\* stored_data is not advanced.
C38_StoreNotAtomic ==
  [][(Stores /\ Publishable(k_arg') /\ Unkeyed(k_arg') # {})
       => RaisedAt(k_arg', FirstOf(Unkeyed(k_arg')))]_vars

\* store() raised at the second entry of three: the first is published,
\* the third is not.
C38_Witness ==
  /\ k_ret.op = "store" /\ k_ret.exc = "ValueError"
  /\ k_arg = PyList(<<PyS(Datum_s), PyS(Wire_garbage), PyS(Datum_m)>>)
  /\ k_ret.produced = 1
  /\ k_sent[Len(k_sent)].value = Datum_s
  /\ \A i \in 1..Len(k_sent) : k_sent[i].value # Datum_m


-----------------------------------------------------------------------------
(* The bytes after the last terminator of a TCP stream                     *)

\* No stream a client sent holds a terminator.
NoTerminatorSent ==
  \A i \in 1..Len(sentLog) : ~Contains(Flat(sentLog[i]), Terminator)

\* Accept-worker w leaves the connection it was reading.
LeavesConnection(w) == wpc[w] = "recv" /\ wpc'[w] # "recv"

=============================================================================
